---- MODULE Spec2Model ----
(***************************************************************************)
(* Model of jarvis/applications.py: application discovery (scanners,       *)
(* deduplication, cache) and the launcher's fuzzy matcher.                 *)
(*                                                                         *)
(* Python strings are TLA+ strings; the regular expressions and str        *)
(* methods the code applies to them are computed character by character.   *)
(* A Python dict is a sequence of <<key, value>> pairs in insertion order. *)
(***************************************************************************)
EXTENDS Integers, Sequences, FiniteSets, TLC

(***************************************************************************)
(* Strings                                                                 *)
(***************************************************************************)

Max2(a, b) == IF a >= b THEN a ELSE b

\* str.lower() on one character.
LowerChar(c) ==
    CASE c = "A" -> "a" [] c = "B" -> "b" [] c = "C" -> "c" [] c = "D" -> "d"
      [] c = "E" -> "e" [] c = "F" -> "f" [] c = "G" -> "g" [] c = "H" -> "h"
      [] c = "I" -> "i" [] c = "J" -> "j" [] c = "K" -> "k" [] c = "L" -> "l"
      [] c = "M" -> "m" [] c = "N" -> "n" [] c = "O" -> "o" [] c = "P" -> "p"
      [] c = "Q" -> "q" [] c = "R" -> "r" [] c = "S" -> "s" [] c = "T" -> "t"
      [] c = "U" -> "u" [] c = "V" -> "v" [] c = "W" -> "w" [] c = "X" -> "x"
      [] c = "Y" -> "y" [] c = "Z" -> "z" [] OTHER -> c

RECURSIVE Lower(_)
\* str.lower()
Lower(s) == IF s = "" THEN "" ELSE LowerChar(Head(s)) \o Lower(Tail(s))

\* The character of s at position i (1-based), "" past the end.
CharAt(s, i) == IF i >= 1 /\ i <= Len(s) THEN SubSeq(s, i, i) ELSE ""

\* \s of the re module
IsSpace(c) == c \in {" ", "\t"}

\* \d of the re module
IsDigit(c) == c \in {"0", "1", "2", "3", "4", "5", "6", "7", "8", "9"}

\* \w of the re module: letters, digits and the underscore
IsWord(c) == c # "" /\ (IsDigit(c) \/ c = "_" \/ LowerChar(c) \in
    {"a", "b", "c", "d", "e", "f", "g", "h", "i", "j", "k", "l", "m", "n",
     "o", "p", "q", "r", "s", "t", "u", "v", "w", "x", "y", "z"})

RECURSIVE SkipSpaces(_, _)
\* The first position at or after i that holds no whitespace (\s* is greedy).
SkipSpaces(s, i) == IF IsSpace(CharAt(s, i)) THEN SkipSpaces(s, i + 1) ELSE i

RECURSIVE SkipDigits(_, _)
\* The first position at or after i that holds no digit (\d+ is greedy).
SkipDigits(s, i) == IF IsDigit(CharAt(s, i)) THEN SkipDigits(s, i + 1) ELSE i

RECURSIVE FindChar(_, _, _)
\* The first position at or after i that holds c, 0 when there is none.
FindChar(s, c, i) ==
    IF i > Len(s) THEN 0
    ELSE IF CharAt(s, i) = c THEN i ELSE FindChar(s, c, i + 1)

\* str.startswith
StartsWith(s, p) == Len(s) >= Len(p) /\ SubSeq(s, 1, Len(p)) = p

\* str.endswith
EndsWith(s, p) == Len(s) >= Len(p) /\ SubSeq(s, Len(s) - Len(p) + 1, Len(s)) = p

RECURSIVE RemoveGroups(_, _, _, _)
\* re.sub(r'\s*\([^)]*\)', '', s) with open = "(" and close = ")", and the
\* same for brackets: scanning from position i, a match starts at i when the
\* whitespace from i is followed by open and a later close; it ends at the
\* first close.
RemoveGroups(s, open, close, i) ==
    IF i > Len(s) THEN ""
    ELSE LET j == SkipSpaces(s, i)
             k == IF CharAt(s, j) = open THEN FindChar(s, close, j + 1) ELSE 0
         IN  IF k # 0 THEN RemoveGroups(s, open, close, k + 1)
             ELSE CharAt(s, i) \o RemoveGroups(s, open, close, i + 1)

\* Whether r'\s*v?\d+\.[\d\.]+' matches at position i of s.
VersionAt(s, i) ==
    LET j == SkipSpaces(s, i)
        d == IF CharAt(s, j) = "v" THEN j + 1 ELSE j
        k == SkipDigits(s, d)
    IN  /\ k > d
        /\ CharAt(s, k) = "."
        /\ (IsDigit(CharAt(s, k + 1)) \/ CharAt(s, k + 1) = ".")

RECURSIVE RemoveVersion(_, _)
\* re.sub(r'\s*v?\d+\.[\d\.]+.*$', '', s): the leftmost match runs to the end
\* of the string, so what is left is the text before it.
RemoveVersion(s, i) ==
    IF i > Len(s) THEN s
    ELSE IF VersionAt(s, i) THEN SubSeq(s, 1, i - 1)
    ELSE RemoveVersion(s, i + 1)

RECURSIVE CollapseSpaces(_, _)
\* re.sub(r'\s+', ' ', s)
CollapseSpaces(s, i) ==
    IF i > Len(s) THEN ""
    ELSE IF IsSpace(CharAt(s, i))
         THEN " " \o CollapseSpaces(s, SkipSpaces(s, i))
         ELSE CharAt(s, i) \o CollapseSpaces(s, i + 1)

RECURSIVE Strip(_)
\* str.strip()
Strip(s) ==
    IF s = "" THEN ""
    ELSE IF IsSpace(Head(s)) THEN Strip(Tail(s))
    ELSE IF IsSpace(CharAt(s, Len(s))) THEN Strip(SubSeq(s, 1, Len(s) - 1))
    ELSE s

\* ApplicationDiscovery._clean_app_name
CleanAppName(name) ==
    LET n1 == RemoveGroups(name, "(", ")", 1)
        n2 == RemoveGroups(n1, "[", "]", 1)
        n3 == RemoveVersion(n2, 1)
        n4 == Strip(CollapseSpaces(n3, 1))
    IN  Lower(n4)

RECURSIVE SkipWord(_, _)
\* The first position at or after i that holds no word character.
SkipWord(s, i) == IF IsWord(CharAt(s, i)) THEN SkipWord(s, i + 1) ELSE i

RECURSIVE FindWords(_, _)
\* re.findall(r'\w+', s), from position i on
FindWords(s, i) ==
    IF i > Len(s) THEN << >>
    ELSE IF IsWord(CharAt(s, i))
         THEN <<SubSeq(s, i, SkipWord(s, i) - 1)>> \o FindWords(s, SkipWord(s, i))
         ELSE FindWords(s, i + 1)

RECURSIVE Initials(_)
\* ''.join(word[0] for word in words if word)
Initials(words) ==
    IF words = << >> THEN ""
    ELSE CharAt(Head(words), 1) \o Initials(Tail(words))

SeqToSet(q) == {q[i] : i \in 1..Len(q)}

\* ApplicationDiscovery._generate_keywords; the list(set(...)) it returns
\* has no defined order, so the keywords are a set.
GenerateKeywords(name, publisher) ==
    LET words == FindWords(Lower(name), 1)
        pub   == IF publisher # ""
                 THEN {Lower(publisher)} \cup SeqToSet(FindWords(Lower(publisher), 1))
                 ELSE {}
        abbr  == IF Len(words) > 1 /\ Len(Initials(words)) > 1
                 THEN {Initials(words)} ELSE {}
        all   == {Lower(name)} \cup SeqToSet(words) \cup pub \cup abbr
    IN  {kw \in all : Len(kw) > 1}

(***************************************************************************)
(* Application records and dicts                                           *)
(***************************************************************************)

\* Optional[datetime]: None, a datetime, or the ISO string of one
NoneValue == <<"None">>

\* Application (dataclass); __post_init__ leaves a given keywords value alone
Application(name, display_name, path, launch_command, app_type, description, icon_path, install_location, publisher, version, keywords) ==
    [name |-> name, display_name |-> display_name, path |-> path,
     launch_command |-> launch_command, app_type |-> app_type,
     description |-> description, icon_path |-> icon_path,
     install_location |-> install_location, publisher |-> publisher,
     version |-> version, keywords |-> keywords, last_used |-> NoneValue]

\* dict: keys in insertion order
DictKeys(d) == [i \in 1..Len(d) |-> d[i][1]]

\* dict.values()
DictValues(d) == [i \in 1..Len(d) |-> d[i][2]]

\* key in d
DictHas(d, k) == \E i \in 1..Len(d) : d[i][1] = k

\* d[k]
DictGet(d, k) == d[CHOOSE i \in 1..Len(d) : d[i][1] = k][2]

\* d[k] = v: an existing key keeps its position and takes the new value
DictSet(d, k, v) ==
    IF DictHas(d, k)
    THEN [i \in 1..Len(d) |-> IF d[i][1] = k THEN <<k, v>> ELSE d[i]]
    ELSE Append(d, <<k, v>>)

\* info.get(key, default) on a parsed JSON object
JsonGet(info, key, default) == IF key \in DOMAIN info THEN info[key] ELSE default

Min2(a, b) == IF a <= b THEN a ELSE b

(***************************************************************************)
(* The machine: what the sources hold.  Each Pool names the items a source *)
(* may hold, in the order the scanner meets them; `installed' is the set   *)
(* of item tags present.                                                   *)
(***************************************************************************)

RegistryPool == <<
    [tag |-> "r_calc", subkey_name |-> "Calc", readable |-> TRUE,
     DisplayName |-> "Calc", Publisher |-> "Acme", DisplayVersion |-> "1.0",
     DisplayIcon |-> "", InstallLocation |-> "C:\\Calc",
     exe_path |-> "C:\\Calc\\calc.exe"],
    [tag |-> "r_beta", subkey_name |-> "{B2}", readable |-> TRUE,
     DisplayName |-> "(Beta) 2.0", Publisher |-> "", DisplayVersion |-> "2.0",
     DisplayIcon |-> "", InstallLocation |-> "C:\\Beta", exe_path |-> ""],
    [tag |-> "r_calc_user", subkey_name |-> "CALC", readable |-> TRUE,
     DisplayName |-> "Calc [x64]", Publisher |-> "", DisplayVersion |-> "",
     DisplayIcon |-> "", InstallLocation |-> "",
     exe_path |-> "D:\\calc.exe"],
    [tag |-> "r_tool", subkey_name |-> "Tool", readable |-> TRUE,
     DisplayName |-> "Tool", Publisher |-> "", DisplayVersion |-> "",
     DisplayIcon |-> "C:\\Tool\\tool.exe,0",
     InstallLocation |-> "C:\\Tool\\tool.exe",
     exe_path |-> "C:\\Tool\\tool.exe"],
    [tag |-> "r_kb", subkey_name |-> "KB9", readable |-> TRUE,
     DisplayName |-> "KB9 Update", Publisher |-> "", DisplayVersion |-> "",
     DisplayIcon |-> "", InstallLocation |-> "C:\\W", exe_path |-> ""],
    [tag |-> "r_locked", subkey_name |-> "Locked", readable |-> FALSE,
     DisplayName |-> "Locked", Publisher |-> "", DisplayVersion |-> "",
     DisplayIcon |-> "", InstallLocation |-> "C:\\L", exe_path |-> ""],
    [tag |-> "r_suite", subkey_name |-> "Suite", readable |-> TRUE,
     DisplayName |-> "Suite", Publisher |-> "", DisplayVersion |-> "",
     DisplayIcon |-> "", InstallLocation |-> "C:\\Suite\\", exe_path |-> ""] >>

StartMenuPool == <<
    [tag |-> "s_calc", file |-> "Calc.lnk", ps_ok |-> TRUE, target_exists |-> TRUE,
     info |-> [TargetPath |-> "C:\\CALC\\Calc.exe", Arguments |-> "",
               Description |-> ""]],
    [tag |-> "s_calc_all", file |-> "calc.lnk", ps_ok |-> TRUE, target_exists |-> TRUE,
     info |-> [TargetPath |-> "D:\\calc.exe", Arguments |-> "/s",
               Description |-> "The calculator of the start menu"]],
    [tag |-> "s_gone", file |-> "Gone.lnk", ps_ok |-> TRUE, target_exists |-> FALSE,
     info |-> [TargetPath |-> "C:\\gone.exe", Arguments |-> "",
               Description |-> ""]],
    [tag |-> "s_readme", file |-> "readme.txt", ps_ok |-> FALSE, target_exists |-> FALSE,
     info |-> [TargetPath |-> ""]] >>

ProgramFilesPool == <<
    [tag |-> "p_calc", item |-> "Calc", isdir |-> TRUE,
     main_exe |-> "C:\\Calc\\calc.exe", exists |-> TRUE],
    [tag |-> "p_empty", item |-> "Empty", isdir |-> TRUE,
     main_exe |-> "", exists |-> FALSE] >>

UwpPool == <<
    [tag |-> "u_notes", Name |-> "Acme.Notes", DisplayName |-> "Notes (Preview)",
     PackageFullName |-> "Acme.Notes_1", InstallLocation |-> "C:\\Apps\\Notes"],
    [tag |-> "u_noname", DisplayName |-> "Ghost", PackageFullName |-> "Ghost_1",
     InstallLocation |-> ""] >>

SteamPool == <<
    [tag |-> "g_calc", file |-> "appmanifest_7.acf", readable |-> TRUE,
     name |-> "Calc", installdir |-> "Calc", appid |-> "7"],
    [tag |-> "g_bad", file |-> "appmanifest_8.acf", readable |-> TRUE,
     name |-> "Bad", installdir |-> "", appid |-> "8"] >>

DesktopPool == <<
    [tag |-> "d_calc", file |-> "Calc.lnk", ps_ok |-> TRUE, target_exists |-> TRUE,
     info |-> [TargetPath |-> "C:\\Calc\\calc.exe", Arguments |-> "",
               Description |-> "Calculator shortcut on the desktop"]],
    [tag |-> "d_nodesc", file |-> "Calc 1.0.lnk", ps_ok |-> TRUE, target_exists |-> TRUE,
     info |-> [TargetPath |-> "D:\\calc.exe", Arguments |-> ""]] >>

Tags(pool) == {pool[i].tag : i \in 1..Len(pool)}

AllTags == Tags(RegistryPool) \cup Tags(StartMenuPool) \cup Tags(ProgramFilesPool)
              \cup Tags(UwpPool) \cup Tags(SteamPool) \cup Tags(DesktopPool)

RECURSIVE Present(_, _)
\* The items of pool that are installed, in pool order
Present(pool, inst) ==
    IF pool = << >> THEN << >>
    ELSE IF Head(pool).tag \in inst THEN <<Head(pool)>> \o Present(Tail(pool), inst)
    ELSE Present(Tail(pool), inst)

\* What the sources hold when the items of inst are installed
Sources(inst) ==
    [registry      |-> Present(RegistryPool, inst),
     start_menu    |-> Present(StartMenuPool, inst),
     program_files |-> Present(ProgramFilesPool, inst),
     uwp           |-> Present(UwpPool, inst),
     steam         |-> Present(SteamPool, inst),
     desktop       |-> Present(DesktopPool, inst)]

(***************************************************************************)
(* Source scanners.  A scanner walks the items its source holds, in order, *)
(* and writes the applications it extracts into the accumulator            *)
(* (self.applications).  `upto' is the number of items it gets through     *)
(* before it stops early (an exception that leaves the scanner, or the     *)
(* registry deadline); a scanner that runs to the end has upto = Len.      *)
(***************************************************************************)

\* ApplicationDiscovery._extract_registry_app_info, from the values read off
\* the subkey: k.exe_path is the executable lines 191-224 resolve from the
\* install directory or the DisplayIcon value ("" when there is none).
\* The result is << >> for None and <<app>> otherwise.
ExtractRegistryAppInfo(k) ==
    IF k.DisplayName = "" \/ StartsWith(k.DisplayName, "KB")
          \/ StartsWith(k.DisplayName, "Security Update")
    THEN << >>
    ELSE IF k.exe_path = "" /\ k.InstallLocation = "" THEN << >>
    ELSE <<Application(
             CleanAppName(k.DisplayName),
             k.DisplayName,
             IF k.exe_path # "" THEN k.exe_path ELSE k.InstallLocation,
             IF k.exe_path # "" THEN "\"" \o k.exe_path \o "\"" ELSE k.InstallLocation,
             "exe",
             IF k.Publisher # "" THEN "Installed application by " \o k.Publisher
                                 ELSE "Installed application",
             k.DisplayIcon, k.InstallLocation, k.Publisher, k.DisplayVersion,
             GenerateKeywords(k.DisplayName, k.Publisher))>>

\* The body of the subkey loop of _discover_from_registry (lines 158-168):
\* the <<app_id, app>> it writes, << >> when it writes nothing; a subkey that
\* cannot be opened (OSError) is skipped.
RegistryEntry(k) ==
    IF ~k.readable THEN << >>
    ELSE LET app_info == ExtractRegistryAppInfo(k)
         IN  IF app_info = << >> THEN << >>
             ELSE <<"registry_" \o Lower(k.subkey_name), app_info[1]>>

\* RegistryEntry of every subkey a registry may hold
RegistryEntries == [k \in SeqToSet(RegistryPool) |-> RegistryEntry(k)]

RECURSIVE WriteEntries(_, _, _, _)
\* A scanner loop: self.applications[app_id] = app_info for the entry of each
\* of the first upto items
WriteEntries(apps, items, upto, entries) ==
    IF items = << >> \/ upto = 0 THEN apps
    ELSE LET e == entries[Head(items)]
         IN  WriteEntries(IF e = << >> THEN apps ELSE DictSet(apps, e[1], e[2]),
                          Tail(items), upto - 1, entries)

\* A registry scan that gives up what it collected when it stops early
DiscoverFromRegistryDiscarding(apps, keys, upto) ==
    IF upto < Len(keys) THEN apps ELSE WriteEntries(apps, keys, upto, RegistryEntries)

\* ApplicationDiscovery._discover_from_registry over the subkeys of the three
\* uninstall keys, in enumeration order
DiscoverFromRegistry(apps, keys, upto) ==
    WriteEntries(apps, keys, upto, RegistryEntries)

\* os.path.splitext(os.path.basename(shortcut_path))[0] of a file whose name
\* ends in ".lnk"
ShortcutFileName(file) ==
    IF Len(file) > 4 THEN SubSeq(file, 1, Len(file) - 4) ELSE file

\* ApplicationDiscovery._process_shortcut: f.ps_ok is whether PowerShell
\* returned the shortcut's properties as JSON (f.info), f.target_exists is
\* os.path.exists(target_path).
ProcessShortcut(f) ==
    IF ~f.ps_ok THEN << >>
    ELSE LET target_path == JsonGet(f.info, "TargetPath", "")
             file_name   == ShortcutFileName(f.file)
             arguments   == JsonGet(f.info, "Arguments", "")
         IN  IF target_path = "" \/ ~f.target_exists THEN << >>
             ELSE <<Application(
                      CleanAppName(file_name),
                      file_name,
                      target_path,
                      IF arguments # ""
                      THEN "\"" \o target_path \o "\" " \o arguments
                      ELSE "\"" \o target_path \o "\"",
                      "shortcut",
                      JsonGet(f.info, "Description", "Desktop shortcut"),
                      "", "", "", "",
                      GenerateKeywords(file_name, ""))>>

\* The body of the file loop of _discover_from_start_menu (lines 266-275)
\* and of _discover_desktop_shortcuts (lines 395-403)
ShortcutEntry(f, prefix) ==
    IF ~EndsWith(f.file, ".lnk") THEN << >>
    ELSE LET app_info == ProcessShortcut(f)
         IN  IF app_info = << >> THEN << >>
             ELSE <<prefix \o Lower(f.file), app_info[1]>>

\* ShortcutEntry of every file the start menu folders may hold
StartMenuEntries == [f \in SeqToSet(StartMenuPool) |-> ShortcutEntry(f, "startmenu_")]

\* ShortcutEntry of every file the desktop may hold
DesktopEntries == [f \in SeqToSet(DesktopPool) |-> ShortcutEntry(f, "desktop_")]

\* ApplicationDiscovery._discover_from_start_menu
DiscoverFromStartMenu(apps, files, upto) ==
    WriteEntries(apps, files, upto, StartMenuEntries)

\* ApplicationDiscovery._discover_desktop_shortcuts
DiscoverDesktopShortcuts(apps, files, upto) ==
    WriteEntries(apps, files, upto, DesktopEntries)

\* ApplicationDiscovery._create_app_from_exe
CreateAppFromExe(exe_path, exists, app_name) ==
    IF ~exists THEN << >>
    ELSE <<Application(
             CleanAppName(app_name), app_name, exe_path,
             "\"" \o exe_path \o "\"", "exe", "Installed application",
             "", "", "", "", GenerateKeywords(app_name, ""))>>

\* The body of the directory loop of _discover_from_program_files (lines
\* 288-302): d.main_exe is the executable _find_main_executable picks in the
\* directory d.item ("" when there is none).
ProgramFilesEntry(d) ==
    IF ~d.isdir \/ d.main_exe = "" THEN << >>
    ELSE LET app_info == CreateAppFromExe(d.main_exe, d.exists, d.item)
         IN  IF app_info = << >> THEN << >>
             ELSE <<"programfiles_" \o Lower(d.item), app_info[1]>>

\* ProgramFilesEntry of every directory the program directories may hold
ProgramFilesEntries == [d \in SeqToSet(ProgramFilesPool) |-> ProgramFilesEntry(d)]

\* ApplicationDiscovery._discover_from_program_files
DiscoverFromProgramFiles(apps, dirs, upto) ==
    WriteEntries(apps, dirs, upto, ProgramFilesEntries)

\* The body of the package loop of _discover_uwp_applications (lines
\* 329-346); <<"KeyError">> is a package without Name.
UwpEntry(a) ==
    LET display_name == JsonGet(a, "DisplayName", "")
        app_info == Application(
            CleanAppName(display_name), display_name,
            JsonGet(a, "InstallLocation", ""),
            "explorer.exe shell:appsFolder\\"
                \o JsonGet(a, "PackageFullName", "") \o "!App",
            "uwp", "Windows Store App", "", "", "", "",
            GenerateKeywords(display_name, "Microsoft Store"))
    IN  IF display_name = "" THEN << >>
        ELSE IF "Name" \notin DOMAIN a THEN <<"KeyError">>
        ELSE <<"uwp_" \o Lower(a.Name), app_info>>

\* UwpEntry of every package the store may list
UwpEntries == [a \in SeqToSet(UwpPool) |-> UwpEntry(a)]

RECURSIVE DiscoverUwpApplications(_, _, _)
\* ApplicationDiscovery._discover_uwp_applications over the packages
\* PowerShell lists: the KeyError of a package without Name ends the scan
\* inside the scanner's own try.
DiscoverUwpApplications(apps, pkgs, upto) ==
    IF pkgs = << >> \/ upto = 0 THEN apps
    ELSE LET e == UwpEntries[Head(pkgs)]
         IN  IF e = <<"KeyError">> THEN apps
             ELSE DiscoverUwpApplications(
                      IF e = << >> THEN apps ELSE DictSet(apps, e[1], e[2]),
                      Tail(pkgs), upto - 1)

\* ApplicationDiscovery._parse_steam_manifest: m.name, m.installdir and
\* m.appid are what the three regular expressions capture ("" for no match).
ParseSteamManifest(m) ==
    IF ~m.readable \/ m.name = "" \/ m.installdir = "" \/ m.appid = "" THEN << >>
    ELSE <<Application(
             CleanAppName(m.name), m.name,
             "steam://rungameid/" \o m.appid, "steam://rungameid/" \o m.appid,
             "steam", "Steam Game", "", "", "", "",
             GenerateKeywords(m.name, "Steam"))>>

\* The body of the file loop of _discover_steam_applications (lines 366-377)
SteamEntry(m) ==
    IF ~(StartsWith(m.file, "appmanifest_") /\ EndsWith(m.file, ".acf")) THEN << >>
    ELSE LET game_info == ParseSteamManifest(m)
         IN  IF game_info = << >> THEN << >>
             ELSE <<"steam_" \o Lower(game_info[1].name), game_info[1]>>

\* SteamEntry of every file the steamapps directories may hold
SteamEntries == [m \in SeqToSet(SteamPool) |-> SteamEntry(m)]

\* ApplicationDiscovery._discover_steam_applications
DiscoverSteamApplications(apps, files, upto) ==
    WriteEntries(apps, files, upto, SteamEntries)

\* ApplicationDiscovery._discover_epic_applications: finds nothing
DiscoverEpicApplications(apps) == apps

\* The system_apps table of _discover_system_applications
SystemApps == <<
    [id |-> "notepad", name |-> "notepad", display_name |-> "Notepad",
     command |-> "notepad.exe", description |-> "Text editor"],
    [id |-> "calculator", name |-> "calculator", display_name |-> "Calculator",
     command |-> "calc.exe", description |-> "Calculator"],
    [id |-> "paint", name |-> "paint", display_name |-> "Paint",
     command |-> "mspaint.exe", description |-> "Image editor"],
    [id |-> "cmd", name |-> "command prompt", display_name |-> "Command Prompt",
     command |-> "cmd.exe", description |-> "Command line interface"],
    [id |-> "powershell", name |-> "powershell", display_name |-> "Windows PowerShell",
     command |-> "powershell.exe", description |-> "Advanced command line"],
    [id |-> "explorer", name |-> "file explorer", display_name |-> "File Explorer",
     command |-> "explorer.exe", description |-> "File manager"],
    [id |-> "control", name |-> "control panel", display_name |-> "Control Panel",
     command |-> "control.exe", description |-> "System settings"],
    [id |-> "msconfig", name |-> "system configuration",
     display_name |-> "System Configuration",
     command |-> "msconfig.exe", description |-> "System configuration utility"],
    [id |-> "taskmgr", name |-> "task manager", display_name |-> "Task Manager",
     command |-> "taskmgr.exe", description |-> "Process manager"] >>

\* The body of the loop of _discover_system_applications (lines 464-475)
SystemEntry(a) ==
    <<"system_" \o a.id,
      Application(a.name, a.display_name, a.command, a.command, "system",
                  a.description, "", "", "", "",
                  GenerateKeywords(a.display_name, "Microsoft"))>>

\* SystemEntry of every row of the table
SystemEntries == [a \in SeqToSet(SystemApps) |-> SystemEntry(a)]

\* ApplicationDiscovery._discover_system_applications
DiscoverSystemApplications(apps, table, upto) ==
    WriteEntries(apps, table, upto, SystemEntries)

(***************************************************************************)
(* Deduplication                                                           *)
(***************************************************************************)

\* The validity test without its name half
IsValidAppUnnamed(app) == app.launch_command # ""

\* _process_discovered_applications, line 650: an app that is kept
IsValidApp(app) == app.name # "" /\ app.launch_command # ""

\* The file paths the sources of the model hold
KnownPaths ==
    {RegistryPool[i].exe_path : i \in 1..Len(RegistryPool)}
      \cup {StartMenuPool[i].info.TargetPath : i \in 1..Len(StartMenuPool)}
      \cup {DesktopPool[i].info.TargetPath : i \in 1..Len(DesktopPool)}
      \cup {ProgramFilesPool[i].main_exe : i \in 1..Len(ProgramFilesPool)}
      \cup {SystemApps[i].command : i \in 1..Len(SystemApps)}

\* str.lower() of these paths, computed once
LowerOfPath == [p \in KnownPaths |-> Lower(p)]

\* path.lower()
LowerPath(p) == IF p \in DOMAIN LowerOfPath THEN LowerOfPath[p] ELSE Lower(p)

\* The deduplication key without the lowercasing of the path
DedupKeyExact(app) == <<app.name, app.path>>

\* _process_discovered_applications, line 654
DedupKey(app) == <<app.name, IF app.path # "" THEN LowerPath(app.path) ELSE "">>

\* _process_discovered_applications, line 661: whether app replaces the
\* entry already held under its key
ReplacesExisting(app, existing) ==
    Len(app.description) > Len(existing.description) \/ app.app_type # "shortcut"

RECURSIVE UniqueApps(_, _)
\* _process_discovered_applications, lines 646-662: the unique_apps dict
\* after the loop over the values still to come
UniqueApps(unique_apps, values) ==
    IF values = << >> THEN unique_apps
    ELSE LET app == Head(values)
             dedup_key == DedupKey(app)
             next == IF ~IsValidApp(app) THEN unique_apps
                     ELSE IF ~DictHas(unique_apps, dedup_key)
                          THEN DictSet(unique_apps, dedup_key, app)
                     ELSE IF ReplacesExisting(app, DictGet(unique_apps, dedup_key))
                          THEN DictSet(unique_apps, dedup_key, app)
                     ELSE unique_apps
         IN  UniqueApps(next, Tail(values))

\* _process_discovered_applications, lines 665-666: the rebuilt dict
Rekey(values) ==
    [i \in 1..Len(values) |-> <<"app_" \o ToString(i - 1), values[i]>>]

\* ApplicationDiscovery._process_discovered_applications: the dict
\* self.applications is rebound to
ProcessDiscoveredApplications(applications) ==
    Rekey(DictValues(UniqueApps(<< >>, DictValues(applications))))

(***************************************************************************)
(* Cache file.  A file is [exists, mtime, data]; data is <<"json", d>> for *)
(* a complete dump of the dict d and <<"corrupt">> for anything json.load  *)
(* rejects.  Time is counted in hours.                                     *)
(***************************************************************************)

\* self.cache_duration, in hours
CacheDuration == 6

NoFile == [exists |-> FALSE, mtime |-> 0, data |-> <<"corrupt">>]

\* A cache file that never goes stale
IsCacheValidAlways(cache_file, now) == cache_file.exists

\* The validity test with an inclusive bound on the age
IsCacheValidInclusive(cache_file, now) ==
    cache_file.exists /\ now - cache_file.mtime <= CacheDuration

\* ApplicationDiscovery._is_cache_valid
IsCacheValid(cache_file, now) ==
    cache_file.exists /\ now - cache_file.mtime < CacheDuration

\* asdict(app) as _save_to_cache writes it: a datetime becomes its ISO string
AsDict(app) ==
    [app EXCEPT !.last_used = IF app.last_used[1] = "datetime"
                              THEN <<"str", app.last_used[2]>>
                              ELSE app.last_used]

\* Whether _save_to_cache can build cache_data: isoformat() exists on a
\* datetime only
CanSerialize(applications) ==
    \A i \in 1..Len(applications) : applications[i][2].last_used[1] # "str"

\* _save_to_cache without the except clause of line 708: a failure leaves it
SaveToCacheRaising(applications, cache_file, now, outcome) ==
    IF ~CanSerialize(applications) \/ outcome = "open_fails"
    THEN [cache_file |-> cache_file, saved |-> FALSE, raised |-> TRUE]
    ELSE IF outcome = "write_fails"
    THEN [cache_file |-> [exists |-> TRUE, mtime |-> now, data |-> <<"corrupt">>],
          saved |-> FALSE, raised |-> TRUE]
    ELSE [cache_file |->
              [exists |-> TRUE, mtime |-> now,
               data |-> <<"json", [i \in 1..Len(applications) |->
                            <<applications[i][1], AsDict(applications[i][2])>>]>>],
          saved |-> TRUE, raised |-> FALSE]

\* ApplicationDiscovery._save_to_cache: the cache file it leaves, whether it
\* wrote the dict and whether it raised.  outcome is what the file system
\* does: "ok", "open_fails" (the file cannot be opened for writing) or
\* "write_fails" (the dump stops part way through the truncated file).  The
\* except clause of line 708 keeps every failure inside.
SaveToCache(applications, cache_file, now, outcome) ==
    IF ~CanSerialize(applications) \/ outcome = "open_fails"
    THEN [cache_file |-> cache_file, saved |-> FALSE, raised |-> FALSE]
    ELSE IF outcome = "write_fails"
    THEN [cache_file |-> [exists |-> TRUE, mtime |-> now, data |-> <<"corrupt">>],
          saved |-> FALSE, raised |-> FALSE]
    ELSE [cache_file |->
              [exists |-> TRUE, mtime |-> now,
               data |-> <<"json", [i \in 1..Len(applications) |->
                            <<applications[i][1], AsDict(applications[i][2])>>]>>],
          saved |-> TRUE, raised |-> FALSE]

\* ApplicationDiscovery._load_from_cache: [ok, applications]; readable is
\* whether the file can be opened and read.  Application(**app_data) keeps
\* every stored field as it is.
LoadFromCache(cache_file, readable) ==
    IF readable /\ cache_file.exists /\ cache_file.data[1] = "json"
    THEN [ok |-> TRUE, applications |-> cache_file.data[2]]
    ELSE [ok |-> FALSE, applications |-> << >>]

(***************************************************************************)
(* discover_all_applications                                               *)
(***************************************************************************)

\* discovery_methods, lines 95-104
DiscoveryMethods == <<"Registry (Uninstall)", "Start Menu", "Program Files",
                      "UWP Apps", "Steam Games", "Epic Games",
                      "Desktop Shortcuts", "System Applications">>

NumMethods == Len(DiscoveryMethods)

\* More items than any source holds: a scanner that is not stopped early
Unlimited == 99

\* method(): the accumulator after scanner i ran on the installed software,
\* getting through at most upto items
RunMethod(i, apps, inst, upto) ==
    CASE i = 1 -> DiscoverFromRegistry(apps, inst.registry, upto)
      [] i = 2 -> DiscoverFromStartMenu(apps, inst.start_menu, upto)
      [] i = 3 -> DiscoverFromProgramFiles(apps, inst.program_files, upto)
      [] i = 4 -> DiscoverUwpApplications(apps, inst.uwp, upto)
      [] i = 5 -> DiscoverSteamApplications(apps, inst.steam, upto)
      [] i = 6 -> DiscoverEpicApplications(apps)
      [] i = 7 -> DiscoverDesktopShortcuts(apps, inst.desktop, upto)
      [] i = 8 -> DiscoverSystemApplications(apps, SystemApps, upto)

\* How far scanner i gets in a pass in which the scanners of `raises' raise
\* an exception after `after' items and the registry deadline passes after
\* reg_limit subkeys
Upto(i, raises, after, reg_limit) ==
    Min2(IF i \in raises THEN after ELSE Unlimited,
         IF i = 1 THEN reg_limit ELSE Unlimited)

RECURSIVE RunMethodsAbort(_, _, _, _, _, _)
\* The loop with the try around it instead of inside it: the first exception
\* ends the scanning
RunMethodsAbort(i, st, inst, raises, after, reg_limit) ==
    IF i > NumMethods THEN st
    ELSE LET next == [apps |-> RunMethod(i, st.apps, inst,
                                         Upto(i, raises, after, reg_limit)),
                      ran  |-> st.ran \cup {i}]
         IN  IF i \in raises THEN next
             ELSE RunMethodsAbort(i + 1, next, inst, raises, after, reg_limit)

RECURSIVE RunMethods(_, _, _, _, _, _)
\* The loop of lines 106-115 from scanner i on, st = [apps, ran] being the
\* accumulator and the set of scanners run so far: an exception of one
\* scanner is caught inside the loop, which goes on with the next scanner
RunMethods(i, st, inst, raises, after, reg_limit) ==
    IF i > NumMethods THEN st
    ELSE RunMethods(i + 1,
                    [apps |-> RunMethod(i, st.apps, inst,
                                        Upto(i, raises, after, reg_limit)),
                     ran  |-> st.ran \cup {i}],
                    inst, raises, after, reg_limit)

\* Lines 91-115: the scanners run on the cleared dict
Accumulate(inst, raises, after, reg_limit) ==
    RunMethods(1, [apps |-> << >>, ran |-> {}], inst, raises, after, reg_limit)

\* discover_all_applications, lines 117-125: what the call does with the
\* accumulator `scan' the scanners left
FreshPassResult(scan, cache_file, now, c) ==
    LET apps == ProcessDiscoveredApplications(scan.apps)
        save == SaveToCache(apps, cache_file, now, c.save)
    IN  [served |-> "fresh", ran |-> scan.ran, accumulated |-> scan.apps,
         ret |-> IF save.raised THEN << >> ELSE apps,
         applications |-> apps,
         rebound |-> TRUE, ret_is_self |-> ~save.raised, old |-> scan.apps,
         cache_file |-> save.cache_file, saved |-> save.saved,
         raised |-> save.raised]

\* ApplicationDiscovery.discover_all_applications on a supported platform.
\* c names what the environment does during the call: c.raises, c.after,
\* c.reg_limit as above, c.readable for the cache read and c.save for the
\* cache write.  The result names the dict returned (ret, with ret_is_self
\* when it is the dict self.applications names), the new value of
\* self.applications, whether that is a new dict object (rebound), what the
\* dict object self.applications named before holds afterwards (old), and
\* whether the call raised instead of returning.
DiscoverAllApplications(applications, cache_file, now, inst, use_cache, c) ==
    IF use_cache /\ IsCacheValid(cache_file, now)
    THEN LET l == LoadFromCache(cache_file, c.readable)
         IN  [served |-> "cache", ran |-> {}, accumulated |-> << >>,
              ret |-> l.applications,
              applications |-> IF l.ok THEN l.applications ELSE applications,
              rebound |-> l.ok, ret_is_self |-> l.ok, old |-> applications,
              cache_file |-> cache_file, saved |-> FALSE, raised |-> FALSE]
    ELSE FreshPassResult(Accumulate(inst, c.raises, c.after, c.reg_limit),
                         cache_file, now, c)

(***************************************************************************)
(* Fuzzy matching: fuzz.ratio, fuzz.partial_ratio and fuzz.token_sort_ratio *)
(* of the fuzzywuzzy package as find_application calls them, on the         *)
(* package's pure-Python path, where the scores come from                   *)
(* difflib.SequenceMatcher.  A string is handled as the tuple of its        *)
(* characters; positions are 0-based and ranges half-open, as in Python.    *)
(***************************************************************************)

\* The characters of s
Chars(s) == [i \in 1..Len(s) |-> SubSeq(s, i, i)]

RECURSIVE MatchLen(_, _, _, _, _, _)
\* The length of the run a[i:i+k] = b[j:j+k] inside a[:ahi] and b[:bhi]
MatchLen(a, i, ahi, b, j, bhi) ==
    IF i < ahi /\ j < bhi /\ a[i + 1] = b[j + 1]
    THEN 1 + MatchLen(a, i + 1, ahi, b, j + 1, bhi)
    ELSE 0

\* Whether the run r = <<i, j, k>> comes before the run s: the longer one,
\* then the one that starts earlier in a, then the one that starts earlier
\* in b
RunBefore(r, s) ==
    \/ r[3] > s[3]
    \/ r[3] = s[3] /\ r[1] < s[1]
    \/ r[3] = s[3] /\ r[1] = s[1] /\ r[2] <= s[2]

\* The first of the runs, <<alo, blo, 0>> when there is none
FirstRun(runs, alo, blo) ==
    IF runs = {} THEN <<alo, blo, 0>>
    ELSE CHOOSE r \in runs : \A s \in runs : RunBefore(r, s)

\* SequenceMatcher.find_longest_match(alo, ahi, blo, bhi)
FindLongestMatch(a, alo, ahi, b, blo, bhi) ==
    FirstRun({<<p[1], p[2], MatchLen(a, p[1], ahi, b, p[2], bhi)>> :
                 p \in {q \in (alo..(ahi - 1)) \X (blo..(bhi - 1)) :
                           a[q[1] + 1] = b[q[2] + 1]}},
             alo, blo)

RECURSIVE MatchingBlocks(_, _, _, _, _, _)
\* SequenceMatcher.get_matching_blocks() without its closing (la, lb, 0)
MatchingBlocks(a, alo, ahi, b, blo, bhi) ==
    LET m == FindLongestMatch(a, alo, ahi, b, blo, bhi)
    IN  IF m[3] = 0 THEN << >>
        ELSE MatchingBlocks(a, alo, m[1], b, blo, m[2]) \o <<m>>
               \o MatchingBlocks(a, m[1] + m[3], ahi, b, m[2] + m[3], bhi)

RECURSIVE SumSizes(_)
\* The characters the blocks match
SumSizes(blocks) ==
    IF blocks = << >> THEN 0 ELSE Head(blocks)[3] + SumSizes(Tail(blocks))

\* The characters SequenceMatcher(None, a, b[blo:bhi]) matches
Matched(a, b, blo, bhi) == SumSizes(MatchingBlocks(a, 0, Len(a), b, blo, bhi))

\* utils.intr(100 * n / d): int(round(...)), which rounds a half to the even
\* neighbour
Intr(n, d) ==
    IF 2 * ((100 * n) % d) > d THEN ((100 * n) \div d) + 1
    ELSE IF 2 * ((100 * n) % d) = d
         THEN ((100 * n) \div d) + (((100 * n) \div d) % 2)
    ELSE (100 * n) \div d

\* fuzz.ratio with its decorators check_for_equivalence and
\* check_empty_string, on character tuples
RatioOf(s1, s2) ==
    IF s1 = s2 THEN 100
    ELSE IF Len(s1) = 0 \/ Len(s2) = 0 THEN 0
    ELSE Intr(2 * Matched(s1, s2, 0, Len(s2)), Len(s1) + Len(s2))

\* fuzz.partial_ratio, the loop body: <<2M, T>> of the ratio of shorter
\* against the slice of longer the block lines it up with
BlockRatio(shorter, longer, block) ==
    LET long_start == Max2(block[2] - block[1], 0)
        long_end == Min2(long_start + Len(shorter), Len(longer))
    IN  <<2 * Matched(shorter, longer, long_start, long_end),
          Len(shorter) + (long_end - long_start)>>

\* fuzz.partial_ratio after the choice of shorter and longer
PartialOf(shorter, longer) ==
    LET blocks == MatchingBlocks(shorter, 0, Len(shorter), longer, 0, Len(longer))
                    \o <<<<Len(shorter), Len(longer), 0>>>>
        scores == [n \in 1..Len(blocks) |-> BlockRatio(shorter, longer, blocks[n])]
    IN  IF \E n \in 1..Len(scores) : 1000 * scores[n][1] > 995 * scores[n][2]
        THEN 100
        ELSE CHOOSE v \in {Intr(scores[n][1], scores[n][2]) : n \in 1..Len(scores)} :
                 \A n \in 1..Len(scores) : v >= Intr(scores[n][1], scores[n][2])

\* fuzz.partial_ratio with its decorators, on character tuples
PartialRatioOf(s1, s2) ==
    IF s1 = s2 THEN 100
    ELSE IF Len(s1) = 0 \/ Len(s2) = 0 THEN 0
    ELSE IF Len(s1) <= Len(s2) THEN PartialOf(s1, s2)
    ELSE PartialOf(s2, s1)

RECURSIVE Tokens(_, _, _)
\* utils.full_process(s).split(): the lowercased runs of \w characters of cs
\* from position i on, cur being the run under way
Tokens(cs, i, cur) ==
    IF i > Len(cs) THEN (IF cur = << >> THEN << >> ELSE <<cur>>)
    ELSE IF IsWord(cs[i]) THEN Tokens(cs, i + 1, Append(cur, LowerChar(cs[i])))
    ELSE (IF cur = << >> THEN << >> ELSE <<cur>>) \o Tokens(cs, i + 1, << >>)

\* The characters of lowercased tokens in code point order
WordChars == Chars("0123456789_abcdefghijklmnopqrstuvwxyz")

\* The rank of the character c in that order
Ord(c) == CHOOSE i \in 1..Len(WordChars) : WordChars[i] = c

RECURSIVE TokenLess(_, _)
\* t1 < t2 on Python strings
TokenLess(t1, t2) ==
    IF t2 = << >> THEN FALSE
    ELSE IF t1 = << >> THEN TRUE
    ELSE IF Head(t1) = Head(t2) THEN TokenLess(Tail(t1), Tail(t2))
    ELSE Ord(Head(t1)) < Ord(Head(t2))

RECURSIVE InsertToken(_, _)
\* The sorted list of tokens with t put in
InsertToken(sorted, t) ==
    IF sorted = << >> THEN <<t>>
    ELSE IF TokenLess(t, Head(sorted)) THEN <<t>> \o sorted
    ELSE <<Head(sorted)>> \o InsertToken(Tail(sorted), t)

RECURSIVE SortTokens(_)
\* sorted(tokens)
SortTokens(tokens) ==
    IF tokens = << >> THEN << >>
    ELSE InsertToken(SortTokens(Tail(tokens)), Head(tokens))

RECURSIVE JoinTokens(_)
\* " ".join(tokens)
JoinTokens(tokens) ==
    IF tokens = << >> THEN << >>
    ELSE IF Len(tokens) = 1 THEN Head(tokens)
    ELSE Head(tokens) \o <<" ">> \o JoinTokens(Tail(tokens))

\* fuzz._process_and_sort
ProcessAndSort(cs) == JoinTokens(SortTokens(Tokens(cs, 1, << >>)))

\* fuzz.token_sort_ratio, on character tuples
TokenSortRatioOf(s1, s2) == RatioOf(ProcessAndSort(s1), ProcessAndSort(s2))

\* find_application, lines 746-753: best_score of the lowercased query
\* against the lowercased candidate text, both as character tuples
BestScoreOf(q, t) ==
    Max2(Max2(RatioOf(q, t), PartialRatioOf(q, t)), TokenSortRatioOf(q, t))

\* best_score of two strings
ComputeBestScore(query_lower, text_lower) ==
    BestScoreOf(Chars(query_lower), Chars(text_lower))

(***************************************************************************)
(* ApplicationLauncher.find_application                                    *)
(***************************************************************************)

\* The queries and thresholds the launcher is asked with
Queries == {"Calc", "calculator", "wordpad", "steam c10", "zz"}

Thresholds == {0, 50, 70}

\* The values of the function f
Range(f) == {f[k] : k \in DOMAIN f}

\* The entries the scanners can write on the machines of the model
KnownApps ==
    {e[2] : e \in {f \in Range(RegistryEntries) \cup Range(StartMenuEntries)
                           \cup Range(DesktopEntries) \cup Range(ProgramFilesEntries)
                           \cup Range(UwpEntries) \cup Range(SteamEntries)
                           \cup Range(SystemEntries) :
                       Len(f) = 2}}

\* The texts find_application matches a query against: the display name,
\* the cleaned name and the keywords of an entry
TextsOf(app) == {app.display_name, app.name} \cup app.keywords

\* The texts of the entries of the model
KnownTexts == UNION {TextsOf(a) : a \in KnownApps}

\* find_application, lines 743-753, computed once for the queries and the
\* texts of the model
ScoreTable ==
    [query \in Queries |->
        [text \in KnownTexts |-> ComputeBestScore(Lower(query), Lower(text))]]

\* find_application, lines 743-753: best_score of a candidate text
BestScore(query, candidate_text) ==
    IF query \in Queries /\ candidate_text \in KnownTexts
    THEN ScoreTable[query][candidate_text]
    ELSE ComputeBestScore(Lower(query), Lower(candidate_text))

RECURSIVE SetToSeq(_)
\* The elements of a set in some order
SetToSeq(S) ==
    IF S = {} THEN << >>
    ELSE <<CHOOSE x \in S : TRUE>> \o SetToSeq(S \ {CHOOSE x \in S : TRUE})

\* find_application, lines 732-738: the candidates of one entry
AppCandidates(app) ==
    <<<<app.display_name, app>>, <<app.name, app>>>>
      \o [i \in 1..Cardinality(app.keywords) |-> <<SetToSeq(app.keywords)[i], app>>]

RECURSIVE Candidates(_)
\* find_application, lines 730-738
Candidates(values) ==
    IF values = << >> THEN << >>
    ELSE AppCandidates(Head(values)) \o Candidates(Tail(values))

\* A comparison the other way round
MatchOfBelow(app, best_score, threshold) ==
    IF best_score <= threshold THEN <<<<app, best_score>>>> ELSE << >>

\* find_application, lines 755-756: what a candidate of app with best_score
\* adds to matches
MatchOf(app, best_score, threshold) ==
    IF best_score >= threshold THEN <<<<app, best_score>>>> ELSE << >>

RECURSIVE Matches(_, _, _)
\* find_application, lines 741-756: the (app, best_score) pairs of the
\* candidates that reach the threshold
Matches(candidates, query, threshold) ==
    IF candidates = << >> THEN << >>
    ELSE MatchOf(Head(candidates)[2], BestScore(query, Head(candidates)[1]), threshold)
           \o Matches(Tail(candidates), query, threshold)

RECURSIVE UniqueMatches(_, _)
\* find_application, lines 759-763: the unique_matches dict after the loop
\* over the matches still to come
UniqueMatches(unique_matches, matches) ==
    IF matches = << >> THEN unique_matches
    ELSE LET app == Head(matches)[1]
             score == Head(matches)[2]
             key == <<app.name, app.path>>
         IN  IF ~DictHas(unique_matches, key)
             THEN UniqueMatches(DictSet(unique_matches, key, Head(matches)), Tail(matches))
             ELSE IF DictGet(unique_matches, key)[2] < score
             THEN UniqueMatches(DictSet(unique_matches, key, Head(matches)), Tail(matches))
             ELSE UniqueMatches(unique_matches, Tail(matches))

RECURSIVE InsertMatch(_, _)
\* The list sorted by score, highest first, with the match x put behind the
\* matches that score as much
InsertMatch(sorted, x) ==
    IF sorted = << >> THEN <<x>>
    ELSE IF Head(sorted)[2] >= x[2] THEN <<Head(sorted)>> \o InsertMatch(Tail(sorted), x)
    ELSE <<x>> \o sorted

RECURSIVE SortMatches(_, _)
\* sorted(values, key=score, reverse=True), a stable sort
SortMatches(sorted, values) ==
    IF values = << >> THEN sorted
    ELSE SortMatches(InsertMatch(sorted, Head(values)), Tail(values))

\* find_application, lines 726-766: sorted_matches
SortedMatches(applications, query, threshold) ==
    IF applications = << >> THEN << >>
    ELSE SortMatches(<< >>,
             DictValues(UniqueMatches(<< >>,
                 Matches(Candidates(DictValues(applications)), query, threshold))))

\* sorted_matches[:10]
TopTen(sorted_matches) == SubSeq(sorted_matches, 1, Min2(10, Len(sorted_matches)))

\* ApplicationLauncher.find_application
FindApplication(applications, query, threshold) ==
    TopTen(SortedMatches(applications, query, threshold))

(***************************************************************************)
(* ApplicationLauncher.launch_application and the launches by name.  The   *)
(* file system and the operating system are the environment of a launch:   *)
(* `disk' says whether app.path exists and whether app.install_location is *)
(* missing, a file or a directory; `starts' says whether the operating     *)
(* system starts the process when it is asked properly.                    *)
(***************************************************************************)

\* Whether path is below the directory dir
IsInside(path, dir) == dir # "" /\ StartsWith(path, dir \o "\\")

\* What a file system can hold for an entry at the time of a launch
Disks(app) ==
    {d \in [path_exists : BOOLEAN, location : {"missing", "file", "dir"}] :
        /\ app.path = "" => ~d.path_exists
        /\ app.install_location = "" => d.location = "missing"
        /\ app.install_location = app.path => (d.path_exists <=> d.location # "missing")
        /\ (d.path_exists /\ IsInside(app.path, app.install_location))
              => d.location = "dir"}

\* subprocess.Popen(command, shell=True[, cwd=cwd]): cwd is << >> for the
\* default working directory; a cwd that is not a directory raises
\* NotADirectoryError, and otherwise the process starts or OSError is raised
Popen(command, cwd, disk, starts) ==
    [command |-> command, cwd |-> cwd,
     started |-> IF cwd # << >> /\ disk.location # "dir" THEN FALSE ELSE starts]

\* launch_application, lines 776-796: the Popen call it makes
LaunchCall(app, disk, starts) ==
    IF app.app_type \in {"uwp", "steam", "system"}
    THEN Popen(app.launch_command, << >>, disk, starts)
    ELSE IF app.path # "" /\ disk.path_exists
    THEN IF app.install_location # "" /\ disk.location # "missing"
         THEN Popen(app.launch_command, <<app.install_location>>, disk, starts)
         ELSE Popen(app.launch_command, << >>, disk, starts)
    ELSE Popen(app.launch_command, << >>, disk, starts)

\* What launch_application leaves when its Popen call went as popen says,
\* with the time stamp written whatever came of the call
LaunchedStamping(app, disk, popen, now) ==
    [app |-> app, disk |-> disk, at |-> now, popen |-> popen,
     ret |-> popen.started, raised |-> FALSE,
     after |-> [app EXCEPT !.last_used = <<"datetime", now>>]]

\* What launch_application leaves when its Popen call went as popen says:
\* lines 798-801 after a start, lines 803-805 after an exception
Launched(app, disk, popen, now) ==
    [app |-> app, disk |-> disk, at |-> now, popen |-> popen,
     ret |-> popen.started, raised |-> FALSE,
     after |-> IF popen.started THEN [app EXCEPT !.last_used = <<"datetime", now>>]
               ELSE app]

\* ApplicationLauncher.launch_application
LaunchApplication(app, disk, starts, now) ==
    Launched(app, disk, LaunchCall(app, disk, starts), now)

\* launch_application_by_name, lines 830-836, with no cut to five
SuggestionsAll(all_matches) ==
    [i \in 1..Len(all_matches) |->
        [name |-> all_matches[i][1].display_name, score |-> all_matches[i][2],
         path |-> all_matches[i][1].path]]

\* launch_application_by_name, lines 830-836: the suggestions
Suggestions(all_matches) ==
    [i \in 1..Min2(5, Len(all_matches)) |->
        [name |-> all_matches[i][1].display_name, score |-> all_matches[i][2],
         path |-> all_matches[i][1].path]]

\* launch_application_by_name, lines 838-843: the dict returned when nothing
\* matched
NoMatchReply(app_name, all_matches) ==
    [success |-> FALSE, app_name |-> app_name,
     suggestions |-> Suggestions(all_matches),
     message |-> "No application found matching '" \o app_name \o "'"]

\* launch_application_by_name, lines 846-856: the dict returned after the
\* launch of the best match
BestMatchReply(best_match, score, success) ==
    [success |-> success, app_name |-> best_match.display_name,
     path |-> best_match.path, score |-> score,
     message |-> IF success THEN "Launched " \o best_match.display_name
                 ELSE "Failed to launch " \o best_match.display_name]

\* launch_by_name, lines 811-821: the tuple returned
LaunchByNameReply(app_name, matches, success) ==
    IF matches = << >>
    THEN <<FALSE, "No application found matching '" \o app_name \o "', Boss.">>
    ELSE IF success THEN <<TRUE, "Launching " \o matches[1][1].display_name \o ", Boss.">>
    ELSE <<FALSE, "Failed to launch " \o matches[1][1].display_name \o ", Boss.">>

\* The second match instead of the first
SecondMatch(matches) == matches[Min2(2, Len(matches))]

\* matches[0]
BestMatch(matches) == matches[1]

\* A launch that stamps every entry of the type of the launched one
MarkUsedOfType(applications, app, after) ==
    [i \in 1..Len(applications) |->
        IF applications[i][2].app_type = app.app_type
        THEN <<applications[i][1],
               [applications[i][2] EXCEPT !.last_used = after.last_used]>>
        ELSE applications[i]]

\* The catalog with the object app in the state `after'
MarkUsed(applications, app, after) ==
    [i \in 1..Len(applications) |->
        IF /\ applications[i][2] = app
           /\ \A j \in 1..(i - 1) : applications[j][2] # app
        THEN <<applications[i][1], after>> ELSE applications[i]]

(***************************************************************************)
(* ApplicationLauncher.find_running_processes and                          *)
(* close_application_by_name.  A process of the table psutil enumerates is *)
(* [pid, name, exe]; name and exe are << >> where psutil returns None for  *)
(* them and <<string>> otherwise.  psutil gives the processes in the order *)
(* of their pids.                                                          *)
(***************************************************************************)

\* sub in s
Contains(s, sub) ==
    \E i \in 1..(Len(s) - Len(sub) + 1) : SubSeq(s, i, i + Len(sub) - 1) = sub

RECURSIVE LastSeparator(_, _)
\* The place of the last slash or backslash of p at or before place i, 0
\* when there is none
LastSeparator(p, i) ==
    IF i = 0 THEN 0
    ELSE IF SubSeq(p, i, i) \in {"\\", "/"} THEN i
    ELSE LastSeparator(p, i - 1)

\* os.path.basename on Windows (ntpath) of a path that is not a UNC path:
\* what follows the last separator, after the drive letter and its colon
Basename(p) ==
    LET rest == IF Len(p) >= 2 /\ SubSeq(p, 2, 2) = ":" THEN SubSeq(p, 3, Len(p)) ELSE p
    IN  SubSeq(rest, LastSeparator(rest, Len(rest)) + 1, Len(rest))

RECURSIVE Replace(_, _, _)
\* str.replace(old, new) for a non-empty old
Replace(s, old, new) ==
    IF Len(s) < Len(old) THEN s
    ELSE IF SubSeq(s, 1, Len(old)) = old
    THEN new \o Replace(SubSeq(s, Len(old) + 1, Len(s)), old, new)
    ELSE SubSeq(s, 1, 1) \o Replace(SubSeq(s, 2, Len(s)), old, new)

RECURSIVE FindRunningProcesses(_, _)
\* ApplicationLauncher.find_running_processes over the processes still to
\* come: a name of None makes .lower() raise AttributeError, which leaves
\* the loop through the handler of lines 890-891
FindRunningProcesses(app_name_lower, table) ==
    IF table = << >> THEN << >>
    ELSE IF Head(table).name = << >> THEN << >>
    ELSE IF \/ Contains(Lower(Head(table).name[1]), app_name_lower)
            \/ /\ Head(table).exe # << >>
               /\ Head(table).exe[1] # ""
               /\ Contains(Lower(Basename(Head(table).exe[1])), app_name_lower)
    THEN <<Head(table)>> \o FindRunningProcesses(app_name_lower, Tail(table))
    ELSE FindRunningProcesses(app_name_lower, Tail(table))

\* close_application_by_name, lines 901-910: search_terms
SearchTerms(app_name, matches) ==
    <<Lower(app_name)>>
      \o IF matches = << >> THEN << >>
         ELSE <<Lower(matches[1][1].display_name), Lower(matches[1][1].name),
                Replace(Lower(Basename(matches[1][1].path)), ".exe", "")>>

RECURSIVE AllMatchingProcesses(_, _)
\* close_application_by_name, lines 913-916
AllMatchingProcesses(search_terms, table) ==
    IF search_terms = << >> THEN << >>
    ELSE FindRunningProcesses(Lower(Head(search_terms)), table)
           \o AllMatchingProcesses(Tail(search_terms), table)

RECURSIVE UniqueProcesses(_, _)
\* close_application_by_name, lines 919-921: unique_processes, a dict keyed
\* by pid
UniqueProcesses(unique_processes, all_matching_processes) ==
    IF all_matching_processes = << >> THEN unique_processes
    ELSE UniqueProcesses(DictSet(unique_processes, Head(all_matching_processes).pid,
                                 Head(all_matching_processes)),
                         Tail(all_matching_processes))

\* close_application_by_name, lines 913-923: processes_to_close
ProcessesToClose(search_terms, table) ==
    DictValues(UniqueProcesses(<< >>, AllMatchingProcesses(search_terms, table)))

\* What psutil can answer to the call made at a stage of the closing of one
\* process
Outcomes(stage) ==
    IF stage \in {"terminate", "kill"} THEN {"ok", "NoSuchProcess", "AccessDenied"}
    ELSE {"returned", "TimeoutExpired"}

\* The closing of one process with a timeout that is a failure at once
AfterStageNoKill(stage, out) ==
    IF stage = "terminate" THEN (IF out = "ok" THEN "wait 3" ELSE "failed")
    ELSE IF stage = "wait 3" THEN (IF out = "returned" THEN "closed" ELSE "failed")
    ELSE IF stage = "kill" THEN (IF out = "ok" THEN "wait 2" ELSE "failed")
    ELSE (IF out = "returned" THEN "closed" ELSE "failed")

\* close_application_by_name, lines 937-959: what follows the call made at a
\* stage when psutil answers out: the next call on the process, or its
\* entry in closed_processes or failed_processes
AfterStage(stage, out) ==
    IF stage = "terminate" THEN (IF out = "ok" THEN "wait 3" ELSE "failed")
    ELSE IF stage = "wait 3" THEN (IF out = "returned" THEN "closed" ELSE "kill")
    ELSE IF stage = "kill" THEN (IF out = "ok" THEN "wait 2" ELSE "failed")
    ELSE (IF out = "returned" THEN "closed" ELSE "failed")

\* A batch that ends with the first failure
NextProcessAbort(at, verdict, n) == IF verdict = "failed" THEN n + 1 ELSE at + 1

\* close_application_by_name, line 936: the loop goes on to the next process
\* whatever became of the one at place `at' of the n
NextProcess(at, verdict, n) == at + 1

\* f"{proc.name()} ({e})"; the name of a selected process is one psutil has
\* read before and keeps
FailedEntry(proc, out) == proc.name[1] \o " (" \o out \o ")"

\* A result that is a success when any process was handled
CloseReplyAny(app_name, closed_processes, failed_processes) ==
    [success |-> closed_processes # << >> \/ failed_processes # << >>,
     app_name |-> app_name,
     closed_processes |-> closed_processes, failed_processes |-> failed_processes]

\* close_application_by_name, lines 960-980: the dict returned after the
\* loop (without its message)
CloseReply(app_name, closed_processes, failed_processes) ==
    IF closed_processes # << >>
    THEN [success |-> TRUE, app_name |-> app_name,
          closed_processes |-> closed_processes,
          failed_processes |-> failed_processes]
    ELSE [success |-> FALSE, app_name |-> app_name,
          failed_processes |-> failed_processes]

\* close_application_by_name, lines 925-930: the dict returned when no
\* process was selected
NoProcessReply(app_name) ==
    [success |-> FALSE, app_name |-> app_name,
     message |-> "No running processes found for '" \o app_name \o "'"]

\* The processes a machine may run, in the order of their pids
ProcessPool == <<
    [pid |-> 11, name |-> <<"calc.exe">>, exe |-> <<"C:\\Calc\\calc.exe">>],
    [pid |-> 12, name |-> <<"CalcHelper.exe">>, exe |-> << >>],
    [pid |-> 13, name |-> << >>, exe |-> << >>],
    [pid |-> 14, name |-> <<"Host.exe">>, exe |-> <<"D:\\calc.exe">>],
    [pid |-> 15, name |-> <<"notepad.exe">>, exe |-> <<"C:\\Windows\\notepad.exe">>] >>

RECURSIVE Running(_, _)
\* The processes of the pool with the pids of the set, in pool order
Running(pool, pids) ==
    IF pool = << >> THEN << >>
    ELSE IF Head(pool).pid \in pids THEN <<Head(pool)>> \o Running(Tail(pool), pids)
    ELSE Running(Tail(pool), pids)

\* The process tables of the model
ProcessTables ==
    {Running(ProcessPool, pids) :
        pids \in SUBSET {ProcessPool[i].pid : i \in 1..Len(ProcessPool)}}

(***************************************************************************)
(* State                                                                   *)
(***************************************************************************)

VARIABLES
    installed,      \* tags of the items the sources of the machine hold
    changed,        \* whether installed changed since the last discover call
    now,            \* wall clock, in hours
    cache_file,     \* jarvis_applications.json
    applications,   \* ApplicationDiscovery.applications
    launcher,       \* whether an ApplicationLauncher has been constructed
    launcher_apps,  \* ApplicationLauncher.applications
    aliased,        \* launcher.applications and discovery.applications are
                    \* the same dict object
    call,           \* what the last discover_all_applications call did
    reordered,      \* the deduplication of the last accumulator in another
                    \* order of its entries: << >> or <<[order, ret]>>
    found,          \* what the last find_application call on the catalog the
                    \* launcher holds returned: << >> or <<[query, threshold,
                    \* sorted_matches, result]>>
    launched,       \* what the last launch call of the launcher did: << >> or
                    \* <<[fn, query, catalog, matches, all_matches, launch,
                    \* result]>>
    closed          \* what the last close_application_by_name call did:
                    \* << >> or <<[app_name, table, selected, steps, result]>>

vars == <<installed, changed, now, cache_file, applications, launcher,
          launcher_apps, aliased, call, reordered, found, launched, closed>>

\* Bounds of the model
MaxInstalled == 2
MaxNow == 6
MaxCalls == 2
MaxRaises == 1
MaxAfter == 1
MaxRegLimit == 1

\* The clock advances in steps of HoursPerTick hours
HoursPerTick == 3

\* The identity key of an entry: its name and its lowercased path
IdentityKey(app) == <<app.name, LowerPath(app.path)>>

\* The identity keys of the entries of a dict
IdentityKeys(d) == {IdentityKey(d[i][2]) : i \in 1..Len(d)}

\* The (name, path) keys of the entries of a dict
NamePathKeys(d) == {<<d[i][2].name, d[i][2].path>> : i \in 1..Len(d)}

\* The entries of a dict that have a name and a launch command
ValidEntries(d) ==
    {d[i][2] : i \in {j \in 1..Len(d) : d[j][2].name # "" /\ d[j][2].launch_command # ""}}

\* What the environment may do during a discover_all_applications call that
\* is served from the cache: the file can be read or not
CacheConducts ==
    {[raises |-> {}, after |-> 0, reg_limit |-> Unlimited, readable |-> r,
      save |-> "ok"] : r \in BOOLEAN}

\* What the environment may do during a fresh pass: the scanners of `raises'
\* raise an exception after `after' items, the registry deadline passes after
\* reg_limit subkeys, and the cache write goes as `save' says
FreshConducts ==
    {c \in [raises : SUBSET (1..NumMethods), after : 0..MaxAfter,
            reg_limit : (0..MaxRegLimit) \cup {Unlimited},
            readable : {TRUE}, save : {"ok", "open_fails", "write_fails"}] :
        /\ Cardinality(c.raises) <= MaxRaises
        /\ (c.raises = {} => c.after = 0)}

\* The scanner whose exceptions leave it in the code as it is: os.listdir of
\* the desktop folder is outside every try of _discover_desktop_shortcuts
DesktopShortcuts == 7

\* What the environment does to a fresh pass without fault injection: the
\* desktop folder can be listed or not, the registry scan runs out of time
\* at its start or not at all
PlainConducts ==
    {c \in FreshConducts : /\ c.raises \subseteq {DesktopShortcuts}
                           /\ c.after = 0
                           /\ c.reg_limit \in {0, Unlimited}}

\* The conducts that make a difference to a call
Conducts(use_cache) ==
    IF use_cache /\ IsCacheValid(cache_file, now) THEN CacheConducts
    ELSE PlainConducts

NoCall == [n |-> 0]

\* The record of a call with result r: what it was asked, what the cache file
\* and the clock were, what it did and returned, and the keys the call before
\* it returned
CallRecord(r, use_cache, c) ==
    [n |-> call.n + 1, use_cache |-> use_cache, conduct |-> c,
     cache_existed |-> cache_file.exists,
     cache_age |-> now - cache_file.mtime,
     cache_data |-> cache_file.data,
     served |-> r.served, ran |-> r.ran, accumulated |-> r.accumulated,
     ret |-> r.ret, saved |-> r.saved, raised |-> r.raised,
     unchanged |-> ~changed,
     prev_keys |-> IF call.n = 0 THEN {} ELSE NamePathKeys(call.ret)]

\* The machines of the bounded model: at most MaxInstalled of the given items
Machines(tags) == {t \in SUBSET tags : Cardinality(t) <= MaxInstalled}

\* The items that come while the program runs
ChangingTags == {"r_calc", "p_calc", "d_calc"}

\* The state after ApplicationDiscovery() on a machine of ms
InitOn(ms) ==
    /\ installed \in ms
    /\ changed = FALSE
    /\ now = 0
    /\ cache_file = NoFile
    /\ applications = << >>
    /\ launcher = FALSE
    /\ launcher_apps = << >>
    /\ aliased = FALSE
    /\ call = NoCall
    /\ reordered = << >>
    /\ found = << >>
    /\ launched = << >>
    /\ closed = << >>

Init == InitOn(Machines(ChangingTags))

\* What a discover_all_applications call with result r leaves behind.  When
\* the launcher holds the dict object the scanners fill, it sees what they
\* left in it, because _process_discovered_applications binds a new dict.
Discovered(r, use_cache, c) ==
    /\ applications' = r.applications
    /\ cache_file' = r.cache_file
    /\ launcher_apps' = IF aliased /\ r.rebound THEN r.old ELSE launcher_apps
    /\ aliased' = (aliased /\ ~r.rebound)
    /\ call' = CallRecord(r, use_cache, c)
    /\ changed' = FALSE
    /\ found' = << >>

\* A direct discovery.discover_all_applications(use_cache) call
Discover(use_cache, c) ==
    /\ call.n < MaxCalls
    /\ Discovered(DiscoverAllApplications(applications, cache_file, now,
                                          Sources(installed), use_cache, c),
                  use_cache, c)
    /\ UNCHANGED <<installed, now, launcher, reordered>>
    /\ UNCHANGED <<launched, closed>>

\* Time passes
Tick ==
    /\ now + HoursPerTick <= MaxNow
    /\ now' = now + HoursPerTick
    /\ UNCHANGED <<installed, changed, cache_file, applications, launcher,
                   launcher_apps, aliased, call, reordered, found>>
    /\ UNCHANGED <<launched, closed>>

\* An item is installed on the machine
Install(t) ==
    /\ t \notin installed
    /\ Cardinality(installed) < MaxInstalled
    /\ installed' = installed \cup {t}
    /\ changed' = TRUE
    /\ UNCHANGED <<now, cache_file, applications, launcher, launcher_apps,
                   aliased, call, reordered, found>>
    /\ UNCHANGED <<launched, closed>>

Next ==
    \/ \E u \in BOOLEAN : \E c \in Conducts(u) : Discover(u, c)
    \/ Tick
    \/ \E t \in ChangingTags : Install(t)

Spec == Init /\ [][Next]_vars

\* One fresh pass on any machine
NextScan == \E c \in FreshConducts : call.n = 0 /\ Discover(FALSE, c)

SpecScan == InitOn(Machines(AllTags)) /\ [][NextScan]_vars

\* The dict d with the entries at positions i and j exchanged
Swap(d, i, j) ==
    [k \in 1..Len(d) |-> IF k = i THEN d[j] ELSE IF k = j THEN d[i] ELSE d[k]]

\* _process_discovered_applications on the accumulator of the last pass with
\* two of its entries presented in the other order
Reprocess(i, j) ==
    /\ call.n > 0
    /\ reordered = << >>
    /\ i < j
    /\ j <= Len(call.accumulated)
    /\ reordered' = <<[order |-> Swap(call.accumulated, i, j),
                       ret   |-> ProcessDiscoveredApplications(
                                     Swap(call.accumulated, i, j))]>>
    /\ UNCHANGED <<installed, changed, now, cache_file, applications, launcher,
                   launcher_apps, aliased, call, found>>
    /\ UNCHANGED <<launched, closed>>

\* The most entries an accumulator of the model holds
MaxAccumulated == Len(SystemApps) + MaxInstalled

\* A fresh pass that nothing disturbs
QuietConduct == [raises |-> {}, after |-> 0, reg_limit |-> Unlimited,
                 readable |-> TRUE, save |-> "ok"]

\* One undisturbed fresh pass on any machine, and its deduplication again in
\* another order
NextDedup ==
    \/ call.n = 0 /\ Discover(FALSE, QuietConduct)
    \/ \E i, j \in 1..MaxAccumulated : Reprocess(i, j)

SpecDedup == InitOn(Machines(AllTags)) /\ [][NextDedup]_vars

\* What a refresh_apps call leaves behind when discover_all_applications
\* gave the result r: the launcher holds the dict that call returned
Refreshed(r, c) ==
    /\ applications' = r.applications
    /\ cache_file' = r.cache_file
    /\ launcher_apps' = r.ret
    /\ aliased' = r.ret_is_self
    /\ call' = CallRecord(r, TRUE, c)
    /\ changed' = FALSE
    /\ found' = << >>

\* ApplicationLauncher.refresh_apps; the first one is the call
\* ApplicationLauncher.__init__ makes
RefreshApps(c) ==
    /\ call.n < MaxCalls
    /\ Refreshed(DiscoverAllApplications(applications, cache_file, now,
                                         Sources(installed), TRUE, c), c)
    /\ launcher' = TRUE
    /\ UNCHANGED <<installed, now, reordered>>
    /\ UNCHANGED <<launched, closed>>

\* What a find_application call that ranked sorted_matches returns
Found(query, threshold, sorted_matches) ==
    <<[query |-> query, threshold |-> threshold,
       sorted_matches |-> sorted_matches, result |-> TopTen(sorted_matches)]>>

\* launcher.find_application(query, threshold)
Find(query, threshold) ==
    /\ launcher
    /\ found' = Found(query, threshold, SortedMatches(launcher_apps, query, threshold))
    /\ UNCHANGED <<installed, changed, now, cache_file, applications, launcher,
                   launcher_apps, aliased, call, reordered>>
    /\ UNCHANGED <<launched, closed>>

\* The items of the machines the launcher runs on
LauncherTags == {"r_calc", "p_calc", "u_notes"}

\* The machines the launcher runs on: those with at most MaxInstalled of the
\* items above, one with two items of two keys, and one on which a start
\* menu shortcut and a desktop shortcut of one target have a game between
\* them
LauncherMachines ==
    Machines(LauncherTags)
      \cup {{"r_calc_user", "u_notes"}, {"s_calc_all", "g_calc", "d_nodesc"}}

\* The conducts in which the cache file can be written
SavingConducts(use_cache) == {c \in Conducts(use_cache) : c.save = "ok"}

\* A launcher is made on a discovery object; it is refreshed and asked for
\* applications, and the discovery object is called on its own as well
NextFind ==
    \/ \E c \in SavingConducts(TRUE) : RefreshApps(c)
    \/ \E u \in BOOLEAN : \E c \in SavingConducts(u) : launcher /\ Discover(u, c)
    \/ \E q \in Queries : \E t \in Thresholds : Find(q, t)

SpecFind == InitOn(LauncherMachines) /\ [][NextFind]_vars

\* The most entries of the catalog that launches stamp in a behaviour
MaxLaunches == 2

\* The number of entries of a catalog that have been launched
Stamped(catalog) ==
    Cardinality({i \in 1..Len(catalog) : catalog[i][2].last_used # NoneValue})

\* What a launch call of the launcher leaves behind: launch is << >> when
\* launch_application was not called and <<what it did>> otherwise.  The
\* entry that was launched is an object of the catalog the launcher holds.
LaunchDone(fn, query, matches, all_matches, launch, result) ==
    /\ launched' = <<[fn |-> fn, query |-> query, catalog |-> launcher_apps,
                      matches |-> matches, all_matches |-> all_matches,
                      launch |-> launch, result |-> result]>>
    /\ launcher_apps' = IF launch = << >> THEN launcher_apps
                        ELSE MarkUsed(launcher_apps, launch[1].app, launch[1].after)
    /\ applications' = IF aliased THEN launcher_apps' ELSE applications
    /\ found' = << >>
    /\ UNCHANGED <<installed, changed, now, cache_file, launcher, aliased, call,
                   reordered, closed>>

\* What launcher.launch_application(app) leaves behind when it did r
LaunchedDirectly(r) == LaunchDone("launch_application", "", << >>, << >>, <<r>>, r.ret)

\* launcher.launch_application(app) on the entry at place i of the catalog
Launch(i, disk, starts) ==
    /\ launcher
    /\ Stamped(launcher_apps) < MaxLaunches
    /\ i \in 1..Len(launcher_apps)
    /\ disk \in Disks(launcher_apps[i][2])
    /\ LaunchedDirectly(LaunchApplication(launcher_apps[i][2], disk, starts, now))

\* launch_application_by_name, lines 827-843
NotLaunchedByName(app_name, all_matches) ==
    LaunchDone("launch_application_by_name", app_name, << >>, all_matches, << >>,
               NoMatchReply(app_name, all_matches))

\* launch_application_by_name, lines 846-856, when launch_application did r
LaunchedByName(app_name, matches, r) ==
    LaunchDone("launch_application_by_name", app_name, matches, << >>, <<r>>,
               BestMatchReply(BestMatch(matches)[1], BestMatch(matches)[2], r.ret))

\* launch_application_by_name after find_application returned matches
LaunchMatches(app_name, matches, starts) ==
    IF matches = << >>
    THEN NotLaunchedByName(app_name, FindApplication(launcher_apps, app_name, 50))
    ELSE \E disk \in Disks(BestMatch(matches)[1]) :
             LaunchedByName(app_name, matches,
                            LaunchApplication(BestMatch(matches)[1], disk, starts, now))

\* launcher.launch_application_by_name(app_name)
LaunchApplicationByName(app_name, starts) ==
    /\ launcher
    /\ Stamped(launcher_apps) < MaxLaunches
    /\ LaunchMatches(app_name, FindApplication(launcher_apps, app_name, 70), starts)

\* launch_by_name, lines 809-821, when launch_application did r
LaunchedBest(app_name, matches, r) ==
    LaunchDone("launch_by_name", app_name, matches, << >>, <<r>>,
               LaunchByNameReply(app_name, matches, r.ret))

\* launch_by_name after find_application returned matches
LaunchBest(app_name, matches, starts) ==
    IF matches = << >>
    THEN LaunchDone("launch_by_name", app_name, << >>, << >>, << >>,
                    LaunchByNameReply(app_name, << >>, FALSE))
    ELSE \E disk \in Disks(BestMatch(matches)[1]) :
             LaunchedBest(app_name, matches,
                          LaunchApplication(BestMatch(matches)[1], disk, starts, now))

\* launcher.launch_by_name(app_name)
LaunchByName(app_name, starts) ==
    /\ launcher
    /\ Stamped(launcher_apps) < MaxLaunches
    /\ LaunchBest(app_name, FindApplication(launcher_apps, app_name, 70), starts)

\* The machines applications are launched on
LaunchMachines == {{"r_calc"}, {"r_tool", "u_notes"}, {"g_calc", "s_calc"}}

\* The names applications are launched by
LaunchQueries == {"Calc", "wordpad", "zz"}

\* The places of the catalog whose entries are launched directly: those of
\* the installed applications and of the first system application
MaxDirect == 3

\* The clock of the launches stops here
LaunchUntil == 3

\* A launcher is made, time passes, and applications are launched directly
\* and by name
NextLaunch ==
    \/ call.n = 0 /\ RefreshApps(QuietConduct)
    \/ now < LaunchUntil /\ Tick
    \/ \E i \in 1..MaxDirect : \E starts \in BOOLEAN :
           \E disk \in [path_exists : BOOLEAN, location : {"missing", "file", "dir"}] :
               Launch(i, disk, starts)
    \/ \E q \in LaunchQueries : \E starts \in BOOLEAN : LaunchApplicationByName(q, starts)
    \/ \E q \in LaunchQueries : \E starts \in BOOLEAN : LaunchByName(q, starts)

SpecLaunch == InitOn(LaunchMachines) /\ [][NextLaunch]_vars

\* Whether a close_application_by_name call is in progress
Closing == closed # << >> /\ closed[1].result = << >>

\* The state of a close_application_by_name call that selected the
\* processes: it has returned when there is none, and is about to call
\* terminate() on the first one otherwise
CloseSelected(app_name, table, search_terms, selected) ==
    [app_name |-> app_name, table |-> table, search_terms |-> search_terms,
     processes |-> [i \in 1..Len(search_terms) |->
                       FindRunningProcesses(Lower(search_terms[i]), table)],
     selected |-> selected, at |-> 1, stage |-> "terminate", log |-> << >>,
     closed_processes |-> << >>, failed_processes |-> << >>,
     result |-> IF selected = << >> THEN <<NoProcessReply(app_name)>> ELSE << >>]

\* The beginning of close_application_by_name with the search terms
CloseWithTerms(app_name, table, search_terms) ==
    closed' = <<CloseSelected(app_name, table, search_terms,
                              ProcessesToClose(search_terms, table))>>

\* launcher.close_application_by_name(app_name), lines 897-930, when the
\* machine runs the processes of the table
CloseBegin(app_name, table) ==
    /\ launcher
    /\ ~Closing
    /\ CloseWithTerms(app_name, table,
                      SearchTerms(app_name, FindApplication(launcher_apps, app_name, 70)))
    /\ UNCHANGED <<installed, changed, now, cache_file, applications, launcher,
                   launcher_apps, aliased, call, reordered, found, launched>>

\* The state of the call c after the process at place c.at got its verdict:
\* the loop goes on, or the call returns after the last process
CloseRecorded(c, log, verdict, closed_processes, failed_processes) ==
    [c EXCEPT !.log = log,
              !.at = NextProcess(c.at, verdict, Len(c.selected)),
              !.stage = "terminate",
              !.closed_processes = closed_processes,
              !.failed_processes = failed_processes,
              !.result = IF NextProcess(c.at, verdict, Len(c.selected)) > Len(c.selected)
                         THEN <<CloseReply(c.app_name, closed_processes, failed_processes)>>
                         ELSE << >>]

\* The state of the call c after psutil answered out to the call of the
\* stage c.stage on the process proc, which leads to `after'
CloseStepped(c, proc, out, after) ==
    IF after = "closed"
    THEN CloseRecorded(c, Append(c.log, [pid |-> proc.pid, op |-> c.stage, out |-> out]),
                       after, Append(c.closed_processes, proc.name[1]),
                       c.failed_processes)
    ELSE IF after = "failed"
    THEN CloseRecorded(c, Append(c.log, [pid |-> proc.pid, op |-> c.stage, out |-> out]),
                       after, c.closed_processes,
                       Append(c.failed_processes, FailedEntry(proc, out)))
    ELSE [c EXCEPT !.log = Append(c.log, [pid |-> proc.pid, op |-> c.stage, out |-> out]),
                   !.stage = after]

\* One call of lines 937-959 on the process the loop is at: terminate(),
\* wait(timeout=3), kill() or wait(timeout=2), answered with out
CloseStep(out) ==
    /\ Closing
    /\ out \in Outcomes(closed[1].stage)
    /\ closed' = <<CloseStepped(closed[1], closed[1].selected[closed[1].at], out,
                                AfterStage(closed[1].stage, out))>>
    /\ UNCHANGED <<installed, changed, now, cache_file, applications, launcher,
                   launcher_apps, aliased, call, reordered, found, launched>>

\* The machines processes are closed on
CloseMachines == {{"r_calc"}, {"u_notes"}, {"r_suite"}, {"g_calc"}}

\* The names processes are closed by
CloseQueries == {"Calc", "zz", "Suite"}

\* A launcher is made and asked once to close an application, and psutil
\* answers the calls of the closing loop one by one
NextClose ==
    \/ call.n = 0 /\ RefreshApps(QuietConduct)
    \/ \E q \in CloseQueries : \E table \in ProcessTables :
           closed = << >> /\ CloseBegin(q, table)
    \/ \E out \in {"ok", "NoSuchProcess", "AccessDenied", "returned", "TimeoutExpired"} :
           CloseStep(out)

SpecClose == InitOn(CloseMachines) /\ [][NextClose]_vars

\* The machines, names and process tables of the calls that read the catalog
FrameMachines == {{"r_calc"}, {"u_notes"}}

FrameQueries == {"Calc", "zz"}

FrameTables == {Running(ProcessPool, pids) : pids \in SUBSET {11, 15}}

\* A launcher is made and asked, in any order, to find an application, to
\* launch one directly or by name, and to close one
NextFrame ==
    \/ call.n = 0 /\ RefreshApps(QuietConduct)
    \/ \E q \in FrameQueries : Find(q, 70)
    \/ \E i \in 1..MaxDirect : \E starts \in BOOLEAN :
           \E disk \in [path_exists : BOOLEAN, location : {"missing", "file", "dir"}] :
               launched = << >> /\ Launch(i, disk, starts)
    \/ \E q \in FrameQueries : \E starts \in BOOLEAN :
           launched = << >> /\ LaunchApplicationByName(q, starts)
    \/ \E q \in FrameQueries : \E table \in FrameTables :
           closed = << >> /\ CloseBegin(q, table)
    \/ \E out \in {"ok", "NoSuchProcess", "AccessDenied", "returned", "TimeoutExpired"} :
           CloseStep(out)

SpecFrame == InitOn(FrameMachines) /\ [][NextFrame]_vars

\* The record of a discovery._save_to_cache() call followed by a
\* discovery._load_from_cache() call: the catalog that was saved, what the
\* save did (s) and what the load returned (l)
SaveLoadRecord(s, l, outcome, readable) ==
    [n |-> call.n + 1, served |-> "save_load", outcome |-> outcome,
     readable |-> readable, before |-> applications, saved |-> s.saved,
     ok |-> l.ok, loaded |-> l.applications]

\* What the two calls leave behind: _load_from_cache binds a new dict of
\* new Application objects when it can load the file (lines 682-686)
SavedThenLoaded(s, l, outcome, readable) ==
    /\ cache_file' = s.cache_file
    /\ applications' = IF l.ok THEN l.applications ELSE applications
    /\ aliased' = (aliased /\ ~l.ok)
    /\ call' = SaveLoadRecord(s, l, outcome, readable)

\* What the two calls leave behind when the save did s
LoadSaved(s, outcome, readable) ==
    SavedThenLoaded(s, LoadFromCache(s.cache_file, readable), outcome, readable)

\* discovery._save_to_cache() and then discovery._load_from_cache(), with
\* no time between them
SaveThenLoad(outcome, readable) ==
    /\ launcher
    /\ call.n < MaxCalls
    /\ LoadSaved(SaveToCache(applications, cache_file, now, outcome), outcome, readable)
    /\ UNCHANGED <<installed, changed, now, launcher, launcher_apps, reordered,
                   found, launched, closed>>

\* The machines whose catalog is saved and loaded
CacheMachines == {{"r_calc"}, {"u_notes"}, {"g_calc", "s_calc"}}

\* A launcher is made, applications are launched as time passes, and the
\* catalog of the discovery object is saved and loaded
NextCache ==
    \/ call.n = 0 /\ RefreshApps(QuietConduct)
    \/ now < LaunchUntil /\ Tick
    \/ \E i \in 1..MaxDirect : \E starts \in BOOLEAN :
           \E disk \in [path_exists : BOOLEAN, location : {"missing", "file", "dir"}] :
               Launch(i, disk, starts)
    \/ \E outcome \in {"ok", "open_fails", "write_fails"} : \E readable \in BOOLEAN :
           SaveThenLoad(outcome, readable)

SpecCache == InitOn(CacheMachines) /\ [][NextCache]_vars

\* The most discover_all_applications calls of a behaviour in which the
\* cache file ages
MaxAgeCalls == 3

\* What a call with result r adds to the history of the passes: when it was
\* made (at), when the last fresh pass before it was made (since, -1 when
\* there was none) and how many calls were served from the cache between
\* the two (between); last_fresh and cached are the same for the next call
AgeHistory(r) ==
    [at |-> now,
     since |-> IF call.n = 0 THEN -1 ELSE call.last_fresh,
     between |-> IF call.n = 0 THEN 0 ELSE call.cached,
     last_fresh |-> IF r.served = "fresh" THEN now
                    ELSE IF call.n = 0 THEN -1 ELSE call.last_fresh,
     cached |-> IF r.served = "fresh" THEN 0
                ELSE IF call.n = 0 THEN 1 ELSE call.cached + 1]

\* What a discover_all_applications call with result r leaves behind, with
\* the history of the passes in the record of the call
DiscoveredByAge(r, use_cache, c) ==
    /\ applications' = r.applications
    /\ cache_file' = r.cache_file
    /\ launcher_apps' = IF aliased /\ r.rebound THEN r.old ELSE launcher_apps
    /\ aliased' = (aliased /\ ~r.rebound)
    /\ call' = CallRecord(r, use_cache, c) @@ AgeHistory(r)
    /\ changed' = FALSE
    /\ found' = << >>

\* A direct discovery.discover_all_applications(use_cache) call
DiscoverByAge(use_cache, c) ==
    /\ call.n < MaxAgeCalls
    /\ DiscoveredByAge(DiscoverAllApplications(applications, cache_file, now,
                                               Sources(installed), use_cache, c),
                       use_cache, c)
    /\ UNCHANGED <<installed, now, launcher, reordered, launched, closed>>

\* The machines on which the cache file ages
AgeMachines == {{}, {"r_calc"}}

\* discover_all_applications is called as time passes
NextAge ==
    \/ \E u \in BOOLEAN : \E c \in Conducts(u) : DiscoverByAge(u, c)
    \/ Tick

SpecAge == InitOn(AgeMachines) /\ [][NextAge]_vars

(***************************************************************************)
(* Properties                                                              *)
(***************************************************************************)

\* Whether the last call was a fresh discovery pass
FreshPass == call.n > 0 /\ call.served = "fresh"

\* What scanner j leaves in an empty accumulator in the last pass
Contribution(j) ==
    RunMethod(j, << >>, Sources(installed),
              Upto(j, call.conduct.raises, call.conduct.after,
                   call.conduct.reg_limit))

\* C1: in a fresh pass in which a scanner raises an exception, every other
\* scanner is run all the same, and the identity key of every valid entry
\* another scanner leaves in the accumulator is in the returned catalog.
ScannerIsolation ==
    FreshPass =>
        \A f \in call.conduct.raises : \A j \in (1..NumMethods) \ {f} :
            /\ j \in call.ran
            /\ \A a \in ValidEntries(Contribution(j)) :
                   IdentityKey(a) \in IdentityKeys(call.ret)

\* A pass in which a scanner raised and another scanner than the system one
\* left a valid entry
ScannerIsolationWitness ==
    /\ FreshPass
    /\ call.conduct.raises # {}
    /\ \E j \in (1..(NumMethods - 1)) \ call.conduct.raises :
           ValidEntries(Contribution(j)) # {}

\* The entries of the dict d that have the identity key k
WithKey(d, k) == {i \in 1..Len(d) : IdentityKey(d[i][2]) = k}

\* C2: after a fresh pass the returned catalog holds exactly one entry for
\* each identity key (name, lowercased path) of a valid accumulated entry.
OneEntryPerKey ==
    FreshPass =>
        \A a \in ValidEntries(call.accumulated) :
            Cardinality(WithKey(call.ret, IdentityKey(a))) = 1

\* A pass in which two scanners wrote valid entries whose keys differ in the
\* case of the path only
OneEntryPerKeyWitness ==
    /\ FreshPass
    /\ \E a, b \in ValidEntries(call.accumulated) :
           /\ a.path # b.path
           /\ IdentityKey(a) = IdentityKey(b)

\* C3: no catalog a fresh pass returns holds an entry with an empty name or
\* an empty launch command.
NoEmptyNameOrCommand ==
    FreshPass =>
        \A i \in 1..Len(call.ret) :
            call.ret[i][2].name # "" /\ call.ret[i][2].launch_command # ""

\* A pass whose accumulator held an entry with an empty name
NoEmptyNameOrCommandWitness ==
    /\ FreshPass
    /\ \E i \in 1..Len(call.accumulated) : call.accumulated[i][2].name = ""

\* Whether the entry a loses to the entry b under the rule "the longer
\* description wins, a non-shortcut wins over a shortcut on equal length"
Loses(a, b) ==
    \/ Len(a.description) < Len(b.description)
    \/ /\ Len(a.description) = Len(b.description)
       /\ a.app_type = "shortcut"
       /\ b.app_type # "shortcut"

\* Whether the entries a and b tie under that rule
Ties(a, b) ==
    /\ Len(a.description) = Len(b.description)
    /\ (a.app_type = "shortcut") <=> (b.app_type = "shortcut")

\* C4: among the accumulated entries that share an identity key, the one in
\* the returned catalog is the one with the longer description, and between
\* entries of equal description length a non-shortcut one: the survivor
\* loses to no valid accumulated entry of its key.
LongerDescriptionSurvives ==
    FreshPass =>
        \A i \in 1..Len(call.ret) : \A a \in ValidEntries(call.accumulated) :
            IdentityKey(a) = IdentityKey(call.ret[i][2]) => ~Loses(call.ret[i][2], a)

\* C5: the deduplication of the same entries presented in two orders keeps
\* the same entry for each identity key, unless the two survivors tie (equal
\* description length and both shortcut or both non-shortcut).
OrderIndependentSurvivor ==
    reordered # << >> =>
        \A i \in 1..Len(call.ret) : \A j \in 1..Len(reordered[1].ret) :
            IdentityKey(call.ret[i][2]) = IdentityKey(reordered[1].ret[j][2]) =>
                \/ call.ret[i][2] = reordered[1].ret[j][2]
                \/ Ties(call.ret[i][2], reordered[1].ret[j][2])

\* Whether the last call was made with use_cache = True
CachedCall == call.n > 0 /\ call.use_cache

\* Whether the cache file the last call met was present and younger than 6
\* hours
MetYoungCache == call.cache_existed /\ call.cache_age < 6

\* Whether the last call ran the full discovery pass
FullPass == call.served = "fresh" /\ call.ran = 1..NumMethods

\* Whether the cache file holds the catalog the last call returned
CacheHoldsCatalog == call.saved /\ cache_file.exists /\ cache_file.data = <<"json", call.ret>>

\* C6: a use_cache call returns the cached catalog without running a scanner
\* only if the cache file exists and is younger than 6 hours; when the file
\* is absent or 6 hours old or older, the full pass is run and its catalog is
\* written to the cache.
StaleCacheRediscoversAndWrites ==
    CachedCall =>
        /\ (call.served = "cache" => MetYoungCache /\ call.ran = {})
        /\ (~MetYoungCache => FullPass /\ CacheHoldsCatalog)

\* C6, amended: as above, but the catalog of the full pass is in the cache
\* afterwards unless the write of the cache file fails.
StaleCacheRediscovers ==
    CachedCall =>
        /\ (call.served = "cache" => MetYoungCache /\ call.ran = {})
        /\ (~MetYoungCache =>
               /\ FullPass
               /\ (call.conduct.save = "ok" => CacheHoldsCatalog))

\* A use_cache call that met a cache file exactly 6 hours old, ran the full
\* pass and wrote its catalog
StaleCacheRediscoversWitness ==
    /\ CachedCall
    /\ call.cache_existed
    /\ call.cache_age = 6
    /\ FullPass
    /\ CacheHoldsCatalog

\* C7: a use_cache call that meets a cache file younger than the TTL that
\* cannot be read or parsed raises no error and runs the full pass, as a call
\* that meets no cache file does.
UnreadableCacheRediscovers ==
    (CachedCall /\ MetYoungCache
       /\ (~call.conduct.readable \/ call.cache_data[1] # "json")) =>
        ~call.raised /\ FullPass

\* The identity keys of the valid entries the last pass accumulated
AccumulatedKeys == {IdentityKey(a) : a \in ValidEntries(call.accumulated)}

\* C8: a fresh pass whose cache write fails raises no error and returns the
\* complete deduplicated catalog of the pass: one valid entry for each
\* identity key the scanners accumulated.
CacheWriteFailureHarmless ==
    (FreshPass /\ call.conduct.save # "ok") =>
        /\ ~call.raised
        /\ IdentityKeys(call.ret) = AccumulatedKeys
        /\ Len(call.ret) = Cardinality(AccumulatedKeys)
        /\ \A i \in 1..Len(call.ret) : call.ret[i][2] \in ValidEntries(call.accumulated)

\* A pass with entries of installed items whose cache write failed, for each
\* of the two ways it fails
CacheWriteFailureHarmlessWitness ==
    /\ FreshPass
    /\ call.conduct.save = "write_fails"
    /\ ~call.saved
    /\ cache_file.exists
    /\ Len(call.ret) > Len(SystemApps)

\* C9: a call that follows another with no change to what is installed in
\* between returns a catalog with the same (name, path) keys.
RepeatedCallSameKeys ==
    (call.n >= 2 /\ call.unchanged) => NamePathKeys(call.ret) = call.prev_keys

\* The highest of the scores
Highest(scores) == CHOOSE v \in scores : \A w \in scores : v >= w

\* The highest best_score of the texts of an entry against the query
TopScore(app, query) == Highest({BestScore(query, t) : t \in TextsOf(app)})

\* C10: before the truncation to 10, find_application returns an entry of
\* the catalog the launcher holds if and only if the highest score of its
\* display name, name and keywords reaches the threshold; the score it
\* reports for an entry is that highest score; and no (name, path) key is
\* returned twice.
FindReturnsTheMatches ==
    found # << >> =>
        /\ \A i \in 1..Len(launcher_apps) :
               (TopScore(launcher_apps[i][2], found[1].query) >= found[1].threshold)
                 <=> (\E m \in 1..Len(found[1].sorted_matches) :
                         found[1].sorted_matches[m][1] = launcher_apps[i][2])
        /\ \A m \in 1..Len(found[1].sorted_matches) :
               found[1].sorted_matches[m][2]
                 = TopScore(found[1].sorted_matches[m][1], found[1].query)
        /\ \A m, n \in 1..Len(found[1].sorted_matches) :
               (found[1].sorted_matches[m][1].name = found[1].sorted_matches[n][1].name
                  /\ found[1].sorted_matches[m][1].path = found[1].sorted_matches[n][1].path)
                 => m = n

\* The place of an entry in the catalog the launcher holds
Position(app) ==
    CHOOSE i \in 1..Len(launcher_apps) :
        /\ launcher_apps[i][2] = app
        /\ \A j \in 1..(i - 1) : launcher_apps[j][2] # app

\* The (name, path) keys of the entries of the catalog the launcher holds
\* whose highest score against the query reaches the threshold
MatchedKeys(query, threshold) ==
    {<<launcher_apps[i][2].name, launcher_apps[i][2].path>> :
        i \in {j \in 1..Len(launcher_apps) :
                  TopScore(launcher_apps[j][2], query) >= threshold}}

\* C11: the list find_application returns is in non-increasing order of
\* score, entries of equal score are in the order in which the catalog holds
\* them, and the list is the first 10 of the ranking of the matching keys,
\* all of it when fewer than 10 match.
FindRanksAndTruncates ==
    found # << >> =>
        /\ Len(found[1].result)
             = Min2(10, Cardinality(MatchedKeys(found[1].query, found[1].threshold)))
        /\ found[1].result = SubSeq(found[1].sorted_matches, 1, Len(found[1].result))
        /\ \A i, j \in 1..Len(found[1].result) :
               i < j =>
                   /\ found[1].result[i][2] >= found[1].result[j][2]
                   /\ found[1].result[i][2] = found[1].result[j][2]
                        => Position(found[1].result[i][1]) < Position(found[1].result[j][1])

\* C12: of two find_application calls with the same query on the same
\* catalog, the one with the higher threshold returns no more entries than
\* the one with the lower threshold.
FindThresholdMonotone ==
    [][(/\ found # << >>
        /\ found' # << >>
        /\ found'[1].query = found[1].query
        /\ found[1].threshold <= found'[1].threshold)
          => Len(found'[1].result) <= Len(found[1].result)]_vars

\* A call at the threshold 70 that returned entries, and fewer of them than
\* the threshold 50 lets through on the same catalog
FindThresholdMonotoneWitness ==
    /\ found # << >>
    /\ found[1].threshold = 70
    /\ found[1].result # << >>
    /\ Len(found[1].result) < Len(FindApplication(launcher_apps, found[1].query, 50))

\* Whether an entry is the one with the name 'calculator' and the display
\* name 'Calculator'
IsCalculator(app) == app.name = "calculator" /\ app.display_name = "Calculator"

\* C13: when the catalog holds an entry with the name 'calculator' and the
\* display name 'Calculator', find_application('calculator') returns that
\* entry first, with the score 100.
ExactNameFirst ==
    (/\ found # << >>
     /\ found[1].query = "calculator"
     /\ found[1].threshold = 70
     /\ \E i \in 1..Len(launcher_apps) : IsCalculator(launcher_apps[i][2]))
      => /\ found[1].result # << >>
         /\ IsCalculator(found[1].result[1][1])
         /\ found[1].result[1][2] = 100

\* Whether no entry of the catalog reaches the score t against the query
NoneScores(catalog, query, t) ==
    \A i \in 1..Len(catalog) : TopScore(catalog[i][2], query) < t

\* Whether the last launch call was launch_application_by_name
ByName == launched # << >> /\ launched[1].fn = "launch_application_by_name"

\* The name, score and path of the first five at most of the matches
FirstFive(matches) ==
    [i \in 1..Min2(5, Len(matches)) |->
        [name |-> matches[i][1].display_name, score |-> matches[i][2],
         path |-> matches[i][1].path]]

\* C14: when no entry of the catalog scores 70 or more against the query,
\* launch_application_by_name starts no process and changes no entry, it
\* returns success = false, and its suggestions are the name, score and
\* path of the first five at most of the entries find_application(query, 50)
\* returns; they are empty when every entry scores below 50.
SuggestsWhenNothingMatches ==
    (ByName /\ NoneScores(launched[1].catalog, launched[1].query, 70)) =>
        /\ launched[1].launch = << >>
        /\ launcher_apps = launched[1].catalog
        /\ launched[1].result.success = FALSE
        /\ "suggestions" \in DOMAIN launched[1].result
        /\ launched[1].result.suggestions
             = FirstFive(FindApplication(launched[1].catalog, launched[1].query, 50))
        /\ NoneScores(launched[1].catalog, launched[1].query, 50)
             => launched[1].result.suggestions = << >>

\* A launch by a name that nothing matches at 70 and more than five entries
\* match at 50
SuggestsWhenNothingMatchesWitness ==
    /\ ByName
    /\ NoneScores(launched[1].catalog, launched[1].query, 70)
    /\ Len(launched[1].all_matches) > 5
    /\ Len(launched[1].result.suggestions) = 5

\* What the launch of the entry the matches begin with has to look like
IsLaunchOf(launch, matches) ==
    /\ launch # << >>
    /\ matches # << >>
    /\ launch[1].app = matches[1][1]
    /\ launch[1].popen.command = matches[1][1].launch_command

\* C15: when an entry of the catalog scores 70 or more against the query,
\* launch_application_by_name launches the first entry find_application
\* returns for the query, and returns the display name, the path and the
\* score of that entry and the success flag of that launch; launch_by_name
\* launches the same entry and returns the flag of its launch.
LaunchesBestMatch ==
    (/\ launched # << >>
     /\ launched[1].fn # "launch_application"
     /\ ~NoneScores(launched[1].catalog, launched[1].query, 70)) =>
        /\ IsLaunchOf(launched[1].launch,
                      FindApplication(launched[1].catalog, launched[1].query, 70))
        /\ launched[1].fn = "launch_by_name"
             => launched[1].result[1] = launched[1].launch[1].ret
        /\ launched[1].fn = "launch_application_by_name"
             => /\ launched[1].result.success = launched[1].launch[1].ret
                /\ launched[1].result.app_name = launched[1].launch[1].app.display_name
                /\ launched[1].result.path = launched[1].launch[1].app.path
                /\ launched[1].result.score = launched[1].matches[1][2]
                /\ launched[1].matches
                     = FindApplication(launched[1].catalog, launched[1].query, 70)

\* A launch by name that had several matches to choose from, and started
\* the process
LaunchesBestMatchWitness ==
    /\ ByName
    /\ Len(launched[1].matches) >= 2
    /\ launched[1].matches[1][1] # launched[1].matches[2][1]
    /\ launched[1].launch # << >>
    /\ launched[1].launch[1].popen.started
    /\ launched[1].result.success

\* Whether the last launch call called launch_application
HasLaunched == launched # << >> /\ launched[1].launch # << >>

\* C16: launch_application returns true and sets last_used of the entry to
\* the current time when the process starts; when the start fails it
\* returns false, raises no exception and leaves last_used as it was.
LaunchStampsOnSuccess ==
    HasLaunched =>
        /\ ~launched[1].launch[1].raised
        /\ launched[1].launch[1].ret = launched[1].launch[1].popen.started
        /\ launched[1].launch[1].after.last_used
             = IF launched[1].launch[1].popen.started
               THEN <<"datetime", launched[1].launch[1].at>>
               ELSE launched[1].launch[1].app.last_used
        /\ \E i \in 1..Len(launcher_apps) :
               launcher_apps[i][2] = launched[1].launch[1].after

\* A launch that failed, of an entry an earlier launch had stamped
LaunchStampsOnSuccessWitness ==
    /\ HasLaunched
    /\ ~launched[1].launch[1].ret
    /\ launched[1].launch[1].app.last_used # NoneValue
    /\ launched[1].launch[1].at > launched[1].launch[1].app.last_used[2]

\* C17: for an entry of the type exe or shortcut the launch command is run
\* with install_location as the working directory exactly when the path
\* exists and install_location exists and is a directory; in every other
\* case it is run with the default working directory.
WorkingDirectoryRule ==
    (HasLaunched /\ launched[1].launch[1].app.app_type \in {"exe", "shortcut"}) =>
        /\ launched[1].launch[1].popen.command = launched[1].launch[1].app.launch_command
        /\ launched[1].launch[1].popen.cwd
             = IF /\ launched[1].launch[1].disk.path_exists
                  /\ launched[1].launch[1].app.install_location # ""
                  /\ launched[1].launch[1].disk.location = "dir"
               THEN <<launched[1].launch[1].app.install_location>>
               ELSE << >>

\* The calls the last close_application_by_name call made on the process
\* pid, with what psutil answered
EventsOf(pid) == SelectSeq(closed[1].log, LAMBDA e : e.pid = pid)

\* Whether the call has returned
Returned == closed # << >> /\ closed[1].result # << >>

\* Whether the events end a wait for the end of the process that did not
\* time out
EndsClosed(events) ==
    /\ events # << >>
    /\ events[Len(events)].op \in {"wait 3", "wait 2"}
    /\ events[Len(events)].out = "returned"

\* Whether the events are in the order graceful termination, wait, kill, wait
InOrder(events) ==
    /\ events # << >> => events[1].op = "terminate"
    /\ \A k \in 1..Len(events) :
           events[k].op = "kill" =>
               /\ k > 1
               /\ events[k - 1].op = "wait 3"
               /\ events[k - 1].out = "TimeoutExpired"

\* Whether every wait of 3 seconds that timed out is followed by a kill, and
\* every kill that was carried out by a wait of 2 seconds
KilledAfterTimeout(events) ==
    \A k \in 1..Len(events) :
        (events[k].op = "wait 3" /\ events[k].out = "TimeoutExpired") =>
            /\ k < Len(events)
            /\ events[k + 1].op = "kill"
            /\ events[k + 1].out = "ok"
                 => (k + 1 < Len(events) /\ events[k + 2].op = "wait 2")

\* C18: the first call close_application_by_name makes on a selected process
\* is terminate(); kill() is called only right after the wait of 3 seconds
\* on that process timed out; and a process whose wait of 3 seconds timed
\* out has been sent kill(), followed by the wait of 2 seconds when kill()
\* went through, by the time it is in closed_processes or failed_processes.
GracefulThenForce ==
    closed # << >> =>
        \A j \in 1..Len(closed[1].selected) :
            /\ InOrder(EventsOf(closed[1].selected[j].pid))
            /\ j < closed[1].at =>
                   /\ EventsOf(closed[1].selected[j].pid) # << >>
                   /\ KilledAfterTimeout(EventsOf(closed[1].selected[j].pid))

\* A call that has returned after it killed a process that did not end in 3
\* seconds and waited for its end
GracefulThenForceWitness ==
    /\ Returned
    /\ \E j \in 1..Len(closed[1].selected) :
           /\ Len(EventsOf(closed[1].selected[j].pid)) = 4
           /\ EndsClosed(EventsOf(closed[1].selected[j].pid))

\* C19: close_application_by_name returns success = true if and only if a
\* process it selected ended during the call, after terminate() or after
\* kill().
SuccessIffClosed ==
    Returned =>
        (closed[1].result[1].success
           <=> \E j \in 1..Len(closed[1].selected) :
                   EndsClosed(EventsOf(closed[1].selected[j].pid)))

\* A call that closed one process and failed to close another
SuccessIffClosedWitness ==
    /\ Returned
    /\ closed[1].result[1].success
    /\ \E j \in 1..Len(closed[1].selected) :
           ~EndsClosed(EventsOf(closed[1].selected[j].pid))

\* The names of the processes, in their order
NamesOf(processes) == [i \in 1..Len(processes) |-> processes[i].name[1]]

\* The entries of failed_processes for the processes, in their order
FailedEntriesOf(processes) ==
    [i \in 1..Len(processes) |->
        FailedEntry(processes[i],
                    EventsOf(processes[i].pid)[Len(EventsOf(processes[i].pid))].out)]

\* closed_processes of a result, empty when the result has none
ClosedOf(result) ==
    IF "closed_processes" \in DOMAIN result THEN result.closed_processes ELSE << >>

\* C20: when close_application_by_name returns after it selected processes,
\* it has called terminate() on every one of them, whatever became of the
\* ones before; closed_processes holds the processes that ended and
\* failed_processes the others (already gone, access denied, still alive
\* after the kill), so that every selected process is in exactly one of them.
EveryProcessRecorded ==
    (Returned /\ closed[1].selected # << >>) =>
        /\ \A j \in 1..Len(closed[1].selected) :
               EventsOf(closed[1].selected[j].pid) # << >>
        /\ ClosedOf(closed[1].result[1])
             = NamesOf(SelectSeq(closed[1].selected,
                                 LAMBDA p : EndsClosed(EventsOf(p.pid))))
        /\ closed[1].result[1].failed_processes
             = FailedEntriesOf(SelectSeq(closed[1].selected,
                                         LAMBDA p : ~EndsClosed(EventsOf(p.pid))))
        /\ Len(ClosedOf(closed[1].result[1])) + Len(closed[1].result[1].failed_processes)
             = Len(closed[1].selected)

\* A call on three processes that failed on the first, which was gone, and
\* on the second, which was alive after the kill, and closed the third
EveryProcessRecordedWitness ==
    /\ Returned
    /\ Len(closed[1].selected) = 3
    /\ EventsOf(closed[1].selected[1].pid)
         = <<[pid |-> closed[1].selected[1].pid, op |-> "terminate", out |-> "NoSuchProcess"]>>
    /\ Len(EventsOf(closed[1].selected[2].pid)) = 4
    /\ ~EndsClosed(EventsOf(closed[1].selected[2].pid))
    /\ EndsClosed(EventsOf(closed[1].selected[3].pid))

\* Whether the name of the process or the basename of its executable
\* contains the term, whatever its case
ProcessMatches(proc, term) ==
    \/ proc.name # << >> /\ Contains(Lower(proc.name[1]), Lower(term))
    \/ proc.exe # << >> /\ Contains(Lower(Basename(proc.exe[1])), Lower(term))

\* Whether the process matches one of the terms
MatchesOneOf(proc, search_terms) ==
    \E i \in 1..Len(search_terms) : ProcessMatches(proc, search_terms[i])

\* The terms of a call: the query, and what the best match adds to it
TermsOfBestMatch(c) ==
    LET matches == FindApplication(launcher_apps, c.app_name, 70)
    IN  IF matches = << >> THEN <<Lower(c.app_name)>>
        ELSE <<Lower(c.app_name), Lower(matches[1][1].display_name),
               Lower(matches[1][1].name),
               Replace(Lower(Basename(matches[1][1].path)), ".exe", "")>>

\* C21: the processes close_application_by_name selects are exactly the
\* running processes whose name or executable basename contains one of the
\* search terms (the query, and the display name, cleaned name and
\* executable basename of the best match when there is one), whatever the
\* case, and no process id is selected or closed twice in a call.
SelectsTheMatchingProcesses ==
    closed # << >> =>
        /\ closed[1].search_terms = TermsOfBestMatch(closed[1])
        /\ SeqToSet(closed[1].selected)
             = {p \in SeqToSet(closed[1].table) : MatchesOneOf(p, closed[1].search_terms)}
        /\ \A i, j \in 1..Len(closed[1].selected) :
               closed[1].selected[i].pid = closed[1].selected[j].pid => i = j
        /\ \A i, j \in 1..Len(closed[1].log) :
               (/\ closed[1].log[i].op = "terminate"
                /\ closed[1].log[j].op = "terminate"
                /\ closed[1].log[i].pid = closed[1].log[j].pid) => i = j

\* Whether the dict d holds the entry of the system utility a
HoldsUtility(d, a) ==
    \E i \in 1..Len(d) : /\ d[i][2].name = a.name
                          /\ d[i][2].display_name = a.display_name
                          /\ d[i][2].launch_command = a.command
                          /\ d[i][2].app_type = "system"

\* C22: every catalog discover_all_applications returns holds an entry for
\* each of the nine system utilities, whatever the other scanners produced,
\* whether they failed, and whatever the cache file holds.
SystemUtilitiesAlwaysPresent ==
    call.n > 0 =>
        \A j \in 1..Len(SystemApps) : HoldsUtility(call.ret, SystemApps[j])

\* A fresh pass whose registry scan met its deadline after it had been
\* through call.conduct.reg_limit subkeys, and was not stopped otherwise
DeadlinePass ==
    /\ FreshPass
    /\ call.conduct.reg_limit # Unlimited
    /\ 1 \notin call.conduct.raises

\* The places of the subkeys the registry scan went through before its
\* deadline in the last pass
BeforeDeadline ==
    1..Min2(call.conduct.reg_limit, Len(Sources(installed).registry))

\* The place of the last subkey before the deadline that wrote under the id
LastWriter(id) ==
    CHOOSE i \in BeforeDeadline :
        /\ RegistryEntry(Sources(installed).registry[i]) # << >>
        /\ RegistryEntry(Sources(installed).registry[i])[1] = id
        /\ \A j \in BeforeDeadline :
               (/\ RegistryEntry(Sources(installed).registry[j]) # << >>
                /\ RegistryEntry(Sources(installed).registry[j])[1] = id) => j <= i

\* C23: when the deadline of the registry scanner has passed, the scanner
\* goes through no further subkey and returns, and what it had written into
\* the accumulator before the deadline is there for the rest of the pass:
\* the accumulator the deduplication gets holds the registry entries of the
\* subkeys before the deadline and of no other subkey, every other scanner
\* has run, and the identity key of every valid one is in the catalog.
DeadlineKeepsCollected ==
    DeadlinePass =>
        /\ call.ran = 1..NumMethods
        /\ \A i \in BeforeDeadline :
               RegistryEntry(Sources(installed).registry[i]) # << >> =>
                   /\ DictHas(call.accumulated,
                              RegistryEntry(Sources(installed).registry[i])[1])
        /\ \A n \in 1..Len(call.accumulated) :
               StartsWith(call.accumulated[n][1], "registry_") =>
                   /\ \E i \in BeforeDeadline :
                          /\ RegistryEntry(Sources(installed).registry[i]) # << >>
                          /\ RegistryEntry(Sources(installed).registry[i])[1]
                               = call.accumulated[n][1]
                   /\ call.accumulated[n][2]
                        = RegistryEntry(Sources(installed).registry[
                              LastWriter(call.accumulated[n][1])])[2]
                   /\ IsValidApp(call.accumulated[n][2]) =>
                          IdentityKey(call.accumulated[n][2]) \in IdentityKeys(call.ret)

\* A pass whose registry scan met its deadline after the first of two
\* subkeys that hold an application, and left the first in the catalog
DeadlineKeepsCollectedWitness ==
    /\ DeadlinePass
    /\ call.conduct.reg_limit = 1
    /\ Len(Sources(installed).registry) = 2
    /\ RegistryEntry(Sources(installed).registry[1]) # << >>
    /\ RegistryEntry(Sources(installed).registry[2]) # << >>
    /\ DictHas(call.accumulated, RegistryEntry(Sources(installed).registry[1])[1])

\* Whether the entry b is the entry a with another last_used
SameButLastUsed(a, b) == [b EXCEPT !.last_used = a.last_used] = a

\* Whether the catalog `after' is the catalog `before' with at most the
\* last_used of the entries at the places of `stamped' changed
SameButStamps(before, after, stamped) ==
    /\ Len(after) = Len(before)
    /\ \A i \in 1..Len(before) :
           /\ after[i][1] = before[i][1]
           /\ IF i \in stamped THEN SameButLastUsed(before[i][2], after[i][2])
              ELSE after[i][2] = before[i][2]

\* The places of the catalog that hold the entry the step launched: one
\* place at most, none when the step launched nothing
PlacesLaunched(before, launch) ==
    IF launch = << >> THEN {}
    ELSE {i \in 1..Len(before) :
              /\ before[i][2] = launch[1].app
              /\ \A j \in 1..(i - 1) : before[j][2] # launch[1].app}

\* C24: find_application and close_application_by_name leave the catalog as
\* it is, every id and every entry, and a launch changes nothing of it but
\* the last_used of the entry it launched.
CatalogFrame ==
    [][/\ ((found' # found /\ found' # << >>) \/ closed' # closed) =>
              /\ launcher_apps' = launcher_apps
              /\ applications' = applications
       /\ launched' # launched =>
              /\ SameButStamps(launcher_apps, launcher_apps',
                               PlacesLaunched(launcher_apps, launched'[1].launch))
              /\ SameButStamps(applications, applications',
                               PlacesLaunched(applications, launched'[1].launch))]_vars

\* A catalog one entry of which was launched, after which an application
\* was looked for and a process was closed
CatalogFrameWitness ==
    /\ launched # << >>
    /\ launched[1].launch # << >>
    /\ launched[1].launch[1].ret
    /\ launcher_apps # launched[1].catalog
    /\ found # << >>
    /\ found[1].result # << >>
    /\ closed # << >>
    /\ closed[1].result # << >>
    /\ closed[1].closed_processes # << >>

\* C25: for a query that is not empty, close_application_by_name searches
\* with no empty term, and every process it selects has a name or an
\* executable basename that contains the query or a display name, cleaned
\* name or executable basename of the best match that is not empty, whatever
\* the path of the best match is.
NoEmptySearchTerm ==
    (closed # << >> /\ closed[1].app_name # "") =>
        /\ \A i \in 1..Len(closed[1].search_terms) : closed[1].search_terms[i] # ""
        /\ \A j \in 1..Len(closed[1].selected) :
               \E i \in 1..Len(closed[1].search_terms) :
                   /\ closed[1].search_terms[i] # ""
                   /\ ProcessMatches(closed[1].selected[j], closed[1].search_terms[i])

\* The processes of the table that match the term, in the order of the
\* table
MatchingProcesses(term, table) == SelectSeq(table, LAMBDA p : ProcessMatches(p, term))

\* C26: find_running_processes returns every running process whose name or
\* executable basename contains the term, also when psutil could not read
\* the name or the executable of other processes: such a process is passed
\* over and the enumeration goes on.
FindsEveryMatchingProcess ==
    closed # << >> =>
        \A i \in 1..Len(closed[1].search_terms) :
            closed[1].processes[i]
              = MatchingProcesses(closed[1].search_terms[i], closed[1].table)

\* The <<app_id, app>> writes of the scanners in a pass over the sources
\* inst in which every scanner runs to its end
Writes(inst) ==
    {e \in {RegistryEntries[k] : k \in SeqToSet(inst.registry)}
            \cup {StartMenuEntries[f] : f \in SeqToSet(inst.start_menu)}
            \cup {ProgramFilesEntries[d] : d \in SeqToSet(inst.program_files)}
            \cup {UwpEntries[a] : a \in SeqToSet(inst.uwp)}
            \cup {SteamEntries[g] : g \in SeqToSet(inst.steam)}
            \cup {DesktopEntries[f] : f \in SeqToSet(inst.desktop)}
            \cup Range(SystemEntries) :
        Len(e) = 2}

\* A fresh pass in which no scanner was stopped before its end
UndisturbedPass ==
    /\ FreshPass
    /\ call.conduct.raises = {}
    /\ call.conduct.reg_limit = Unlimited

\* C27: in a discovery pass no entry a scanner wrote into the accumulator
\* is replaced or removed by a later write: the accumulator the
\* deduplication gets holds every entry under the id it was written with,
\* and the identity key of every valid one is in the catalog.
AccumulatorAppendOnly ==
    UndisturbedPass =>
        \A e \in Writes(Sources(installed)) :
            /\ DictHas(call.accumulated, e[1])
            /\ DictGet(call.accumulated, e[1]) = e[2]
            /\ IsValidApp(e[2]) => IdentityKey(e[2]) \in IdentityKeys(call.ret)

\* C28: whatever refresh_apps calls and direct discover_all_applications
\* calls were made, the catalog the launcher reads is a deduplicated
\* catalog: no two of its entries have the same (name, lowercased path), and
\* none has an empty name or an empty launch command.
LauncherReadsDeduplicated ==
    launcher =>
        /\ \A i, j \in 1..Len(launcher_apps) :
               IdentityKey(launcher_apps[i][2]) = IdentityKey(launcher_apps[j][2]) => i = j
        /\ \A i \in 1..Len(launcher_apps) : IsValidApp(launcher_apps[i][2])

\* C29: a catalog saved with _save_to_cache and loaded with
\* _load_from_cache while the file is young comes back with the same ids in
\* the same order and with entries equal field for field, keywords and
\* last_used included.
CacheRoundTrip ==
    (/\ call.n > 0
     /\ call.served = "save_load"
     /\ call.outcome = "ok"
     /\ call.readable) =>
        /\ call.saved
        /\ call.ok
        /\ call.loaded = call.before

\* C30: a discover_all_applications call served from the cache leaves the
\* cache file as it is, so that only a fresh pass changes the file, and the
\* use_cache call made 6 hours or more after the last fresh pass runs a
\* fresh pass, however many calls were served from the cache since that
\* pass.
CacheAgeFromFreshPass ==
    [][/\ cache_file' # cache_file =>
              /\ call'.n = call.n + 1
              /\ call'.served = "fresh"
       /\ call'.n = call.n + 1 =>
              /\ call'.served = "cache" => cache_file' = cache_file
              /\ (/\ call'.use_cache
                  /\ call'.since >= 0
                  /\ call'.at - call'.since >= CacheDuration) =>
                     /\ call'.served = "fresh"
                     /\ call'.ran = 1..NumMethods]_vars

\* A call made 6 hours after the last fresh pass, with a call served from
\* the cache between the two, that ran a fresh pass
CacheAgeFromFreshPassWitness ==
    /\ call.n = MaxAgeCalls
    /\ call.use_cache
    /\ call.since >= 0
    /\ call.at - call.since >= CacheDuration
    /\ call.between >= 1
    /\ call.served = "fresh"

====
